---- MODULE Spec2Model ----
(***************************************************************************)
(* Model of the per-symbol trading loop of basic_mm: the order management  *)
(* system (src/src/OMS.py) as driven by one symbol worker                   *)
(* (src/src/market_maker.py), and the event bus (src/src/core/event_bus.py).*)
(*                                                                         *)
(* Numbers: prices are integers in units of 0.01, so tick_size 0.1 is 10.  *)
(* Products with a basis-point factor are kept as exact fractions          *)
(* (numerator, denominator) until round_step cuts them to a step.          *)
(* Time is in milliseconds, as returned by time_ms().                      *)
(***************************************************************************)
EXTENDS Integers, Sequences, FiniteSets, TLC

(***************************************************************************)
(* Bounds of the model.                                                    *)
(***************************************************************************)
MaxNow == 20000
TickMs == 10000
MaxBatch == 2
MaxCount == 3
MaxInflight == 2
MaxTasks == 1
MaxEvents == 3

(***************************************************************************)
(* Program constants.                                                      *)
(***************************************************************************)
timeout == 10000
num_orders == 2
tp_distance == 100
tick_size == 10
Bps == 10000
SensitivityInv == 10

(***************************************************************************)
(* Values.                                                                 *)
(***************************************************************************)
None == "None"
NoCloid == <<"None">>
NoOid == <<"None">>
L0 == <<"0", "0", "0">>
L1 == <<"0", "0", "1">>
TpTag == <<"_", "t", "p">>
Levels == {L0, L1}
Mids == {10000}

\* cloid[-3:]
Tail3(c) == IF Len(c) <= 3 THEN c ELSE SubSeq(c, Len(c) - 2, Len(c))

Order(side, amount, price, order_type, cloid, oid) ==
    [side |-> side, amount |-> amount, price |-> price,
     order_type |-> order_type, cloid |-> cloid, oid |-> oid]

NoOrder == Order(None, 0, 0, None, NoCloid, NoOid)

\* The orders the exchange knows: an oid always carries the same cloid,
\* side and amount.  o3 is a second order on level 000, o4 a take-profit child.
O1 == <<"o", "1">>
O2 == <<"o", "2">>
O3 == <<"o", "3">>
O4 == <<"o", "4">>
Oids == {O1, O2, O3, O4}
ExCloid(oid) == CASE oid = O1 -> L0
                  [] oid = O2 -> L1
                  [] oid = O3 -> L0
                  [] OTHER    -> L0 \o TpTag
ExSide(oid) == IF oid \in {O1, O3} THEN "BUY" ELSE "SELL"
ExAmount(oid) == IF oid = O2 THEN 50 ELSE 30
ExPrices(oid) == CASE oid = O1 -> {9990, 10010}
                   [] oid = O2 -> {10010}
                   [] oid = O3 -> {9990}
                   [] OTHER    -> {10080}

OVERWRITE == {"NEW", "PARTIALLY_FILLED"}
REMOVE == {"FILLED", "CANCELLED"}
REJECTED == {"REJECTED"}

\* Order-update records of the account stream.
Record(status, oid, price) ==
    [status |-> status,
     order |-> Order(ExSide(oid), ExAmount(oid), price, "LIMIT", ExCloid(oid), oid)]
OidRecords ==
    UNION {{Record(s, o, p) : p \in ExPrices(o)} :
              s \in OVERWRITE \cup REMOVE, o \in Oids}
NoOidRecords ==
    {[status |-> s, order |-> Order("BUY", 3, 9990, "LIMIT", c, NoOid)] :
        s \in {"NEW", "CANCELLED", "REJECTED"}, c \in {L0, L1, L0 \o TpTag}}
Records == OidRecords \cup NoOidRecords
\* records that a batch of more than one record is made of
PairRecords == {Record("NEW", O1, 9990), Record("FILLED", O1, 9990),
                Record("FILLED", O2, 10010)}
BatchesOf(records) ==
    {<<r>> : r \in records}
    \cup UNION {[1..n -> PairRecords \cap records] : n \in 2..MaxBatch}
\* the account stream of a quiet market: nothing is filled, no take-profit child
QuietRecords == {r \in Records : r.status # "FILLED" /\ r.order.oid # O4
                                  /\ Tail3(r.order.cloid) # TpTag}
QuietBatches == BatchesOf(QuietRecords)
\* the account stream of a market that fills: orders o1, o2 and the child o4
\* are acknowledged and filled, the child partially filled and cancelled too;
\* a batch names an order event once
FillRecords == {r \in OidRecords : /\ r.order.oid \in {O1, O2, O4}
                                   /\ r.order.price # 10010 \/ r.order.oid # O1
                                   /\ r.status \in {"NEW", "FILLED"} \/ r.order.oid = O4}
FillBatches == {b \in BatchesOf(FillRecords) :
                   \A i, j \in 1..Len(b) : i # j => b[i] # b[j]}

\* Order intents handed to OMS.update / simple_update.
Limit(cloid, price) ==
    Order(IF cloid = L1 THEN "SELL" ELSE "BUY", 30, price, "LIMIT", cloid, NoOid)
MarketInput == Order("BUY", 30, 9990, "MARKET", NoCloid, NoOid)
Ladders == {<<Limit(L0, 9990)>>, <<Limit(L0, 10010)>>, <<Limit(L1, 10010)>>,
            <<Limit(NoCloid, 9990)>>, <<MarketInput>>,
            <<Limit(L0, 9990), Limit(L1, 10010)>>,
            <<Limit(L0, 10010), Limit(L1, 10010)>>,
            <<Limit(L0, 9990), Limit(L0, 9990)>>,
            <<MarketInput, Limit(L0, 9990)>>,
            <<Limit(L0, 9990), Limit(NoCloid, 9990)>>}
FillLadders == {<<Limit(L0, 9990), Limit(L1, 10010)>>}

Responses == {"OK", "ERROR", "RAISE"}

(***************************************************************************)
(* State.                                                                  *)
(***************************************************************************)
VARIABLES
    now,             \* wall clock, time_ms()
    orders_state,    \* OMS.orders_state: oid -> Order
    order_keys,      \* the oids of orders_state in the dict's (insertion) order
    pending_levels,  \* OMS.pending_levels: level -> timestamp
    order_count,     \* OMS.order_count
    tp_tasks,        \* take-profit tasks created by asyncio.create_task
    pc,              \* position of the symbol worker
    call,            \* locals of the OMS operation the worker is inside
    sent,            \* exchange requests issued by that operation, in order
    inflight,        \* history: unanswered place/amend requests per level
    covered,         \* history: those issued by update under the level's current pending entry
    rejected,        \* history: levels whose REJECTED update came after the last update call
    drift            \* history: the cancel_all of line 284 was answered, no update called since

omsvars == <<now, orders_state, order_keys, pending_levels, order_count, tp_tasks, pc,
             call, sent, inflight, covered, rejected, drift>>

VARIABLES
    maxsize,         \* the maxsize MultiEventBus was built with (0: unbounded)
    queue,           \* per stream key: the items of EventBus._queue
    last_id,         \* per stream key: EventBus._last_id
    closed,          \* per stream key: EventBus._closed
    putters,         \* per stream key: producers suspended in a full queue's put
    prod,            \* per producer task: where it is inside put, and its last result
    cons,            \* per consumer: where it is inside get, and its last result
    got              \* history: per stream key, the events get has returned

busvars == <<maxsize, queue, last_id, closed, putters, prod, cons, got>>

VARIABLES
    lob,               \* LOBManager: the mid of the last orderbook event
    position,          \* PositionManager.get_position of the worker's symbol
    last_requote_time, \* MarketMaker.last_requote_time
    quoter,            \* SimpleQuoter: last_mid, prev_bid_skew, prev_ask_skew, prev_vol
    requote_log,       \* history: what the last call of requote did
    rounded,           \* an input of round_step and what rounding it once and twice gave
    checked,           \* an input of is_out_of_bounds and what it returned
    positions,         \* PositionManager.positions
    received,          \* history: per symbol, the last record update_positions was given
    estimator,         \* a VolatilityEstimator: n, buffer, sum, sum_sq, count; its history
    worker             \* a symbol worker: its symbol, where it is in _process_events, its history

\* the state of components that are checked on their own
partvars == <<positions, received, estimator>>

mmvars == <<lob, position, last_requote_time, quoter, requote_log, rounded, checked,
           partvars, worker>>

NoCall == [op |-> None, new_orders |-> <<>>, i |-> 0, mid |-> 0,
           limits |-> <<>>, amends |-> <<>>, markets |-> <<>>,
           pending0 |-> <<>>, t0 |-> 0, gathered |-> None, result |-> None]

EmptyMap == [l \in {} |-> 0]

(***************************************************************************)
(* Pending levels.                                                         *)
(***************************************************************************)
\* OMS._add_pending_level
AddPending(pl, level, t) ==
    [l \in DOMAIN pl \cup {level} |-> IF l = level THEN t ELSE pl[l]]

\* OMS._remove_pending_level
RemovePending(pl, level) == [l \in DOMAIN pl \ {level} |-> pl[l]]

\* mutant: an entry is stale from the timeout on, not only after it
CleanupStaleInclusive(pl, level, t) ==
    IF level \notin DOMAIN pl THEN pl
    ELSE IF t - pl[level] >= timeout THEN RemovePending(pl, level)
    ELSE pl

\* mutant: a stale entry is never removed
CleanupStaleNever(pl, level, t) == pl

\* mutant: an entry is stale only after twice the timeout
CleanupStaleLate(pl, level, t) ==
    IF level \notin DOMAIN pl THEN pl
    ELSE IF t - pl[level] > 2 * timeout THEN RemovePending(pl, level)
    ELSE pl

\* OMS._cleanup_stale_pending
CleanupStale(pl, level, t) ==
    IF level \notin DOMAIN pl THEN pl
    ELSE IF t - pl[level] > timeout THEN RemovePending(pl, level)
    ELSE pl

\* mutant: the pending check is skipped
IsLevelPendingIgnored(pl, level, t) == FALSE

\* OMS._is_level_pending, after its cleanup
IsLevelPending(pl, level, t) == level \in DOMAIN CleanupStale(pl, level, t)

(***************************************************************************)
(* Rounding and take-profit orders.                                        *)
(***************************************************************************)
\* round_step that drops the fraction but not the remainder of the step
round_step_unstepped(num, den, step) ==
    IF num >= 0 THEN num \div den ELSE 0 - ((0 - num) \div den)

\* round_step(num/den, step) = x - x % step in decimal arithmetic
\* (Decimal's % truncates towards zero).
round_step(num, den, step) ==
    IF num >= 0 THEN (num \div (den * step)) * step
    ELSE 0 - (((0 - num) \div (den * step)) * step)

\* mutant: the take-profit price is above the fill for both sides
TakeProfitAbove(order) ==
    Order(IF order.side = "BUY" THEN "SELL" ELSE "BUY",
          order.amount,
          round_step(order.price * (Bps + tp_distance), Bps, tick_size),
          "LIMIT",
          order.cloid \o TpTag,
          NoOid)

\* the Order built per filled order in OMS._place_take_profits
TakeProfit(order) ==
    Order(IF order.side = "BUY" THEN "SELL" ELSE "BUY",
          order.amount,
          IF order.side = "BUY"
          THEN round_step(order.price * (Bps + tp_distance), Bps, tick_size)
          ELSE round_step(order.price * (Bps - tp_distance), Bps, tick_size),
          "LIMIT",
          order.cloid \o TpTag,
          NoOid)

RECURSIVE TakeProfits(_)
TakeProfits(filled) ==
    IF filled = <<>> THEN <<>>
    ELSE <<[op |-> "create_order", order |-> TakeProfit(Head(filled))]>>
         \o TakeProfits(Tail(filled))

(***************************************************************************)
(* The order-update state machine, OMS.update_orders_state.                *)
(***************************************************************************)
DictSet(os, oid, order) ==
    [o \in DOMAIN os \cup {oid} |-> IF o = oid THEN order ELSE os[o]]
DictDel(os, oid) == [o \in DOMAIN os \ {oid} |-> os[o]]

\* the key order of a dict: a new key goes last, an updated key keeps its
\* place, a deleted key leaves
RECURSIVE Without(_, _)
Without(ks, oid) ==
    IF ks = <<>> THEN <<>>
    ELSE IF Head(ks) = oid THEN Without(Tail(ks), oid)
    ELSE <<Head(ks)>> \o Without(Tail(ks), oid)
KeysSet(ks, os, oid) == IF oid \in DOMAIN os THEN ks ELSE Append(ks, oid)

\* mutant: a take-profit order is counted and clears its level like any other
ApplyRecordCountsTp(s, rec) ==
    LET cloid == rec.order.cloid
        level == IF Tail3(cloid) = TpTag /\ Len(cloid) > 3
                 THEN SubSeq(cloid, 1, Len(cloid) - 3) ELSE Tail3(cloid)
        oid == rec.order.oid
    IN  IF rec.status \in OVERWRITE
        THEN IF oid # NoOid
             THEN [s EXCEPT !.os = DictSet(s.os, oid, rec.order),
                            !.ks = KeysSet(s.ks, s.os, oid),
                            !.oc = s.oc + 1,
                            !.pl = RemovePending(s.pl, level)]
             ELSE [s EXCEPT !.pl = IF level # <<>>
                                   THEN RemovePending(s.pl, level) ELSE s.pl]
        ELSE IF rec.status \in REMOVE
        THEN IF oid \in DOMAIN s.os
             THEN [s EXCEPT !.filled = IF rec.status = "FILLED"
                                       THEN Append(s.filled, s.os[oid])
                                       ELSE s.filled,
                            !.os = DictDel(s.os, oid),
                            !.ks = Without(s.ks, oid),
                            !.oc = s.oc - 1,
                            !.pl = RemovePending(s.pl, level)]
             ELSE s
        ELSE IF rec.status \in REJECTED
        THEN [s EXCEPT !.pl = RemovePending(s.pl, level)]
        ELSE s

\* mutant: a FILLED or CANCELLED record removes the pending mark of its level
\* also when its oid is not in orders_state
ApplyRecordFreesUnknown(s, rec) ==
    LET cloid == rec.order.cloid
        level == Tail3(cloid)
        oid == rec.order.oid
        is_tp == level = TpTag
    IN  IF rec.status \in OVERWRITE
        THEN IF oid # NoOid
             THEN [s EXCEPT !.os = DictSet(s.os, oid, rec.order),
                            !.ks = KeysSet(s.ks, s.os, oid),
                            !.oc = IF level # TpTag THEN s.oc + 1 ELSE s.oc,
                            !.pl = IF level # TpTag THEN RemovePending(s.pl, level)
                                   ELSE s.pl]
             ELSE [s EXCEPT !.pl = IF level # <<>> /\ level # TpTag
                                   THEN RemovePending(s.pl, level) ELSE s.pl]
        ELSE IF rec.status \in REMOVE
        THEN IF oid \in DOMAIN s.os
             THEN [s EXCEPT !.filled = IF rec.status = "FILLED" /\ ~is_tp
                                       THEN Append(s.filled, s.os[oid])
                                       ELSE s.filled,
                            !.os = DictDel(s.os, oid),
                            !.ks = Without(s.ks, oid),
                            !.oc = IF ~is_tp THEN s.oc - 1 ELSE s.oc,
                            !.pl = IF ~is_tp THEN RemovePending(s.pl, level)
                                   ELSE s.pl]
             ELSE [s EXCEPT !.pl = IF ~is_tp THEN RemovePending(s.pl, level)
                                   ELSE s.pl]
        ELSE IF rec.status \in REJECTED
        THEN [s EXCEPT !.pl = RemovePending(s.pl, level)]
        ELSE s

\* one iteration of the loop over the batch; s = [os, ks, oc, pl, filled]
ApplyRecord(s, rec) ==
    LET cloid == rec.order.cloid
        level == Tail3(cloid)
        oid == rec.order.oid
        is_tp == level = TpTag
    IN  IF rec.status \in OVERWRITE
        THEN IF oid # NoOid
             THEN [s EXCEPT !.os = DictSet(s.os, oid, rec.order),
                            !.ks = KeysSet(s.ks, s.os, oid),
                            !.oc = IF level # TpTag THEN s.oc + 1 ELSE s.oc,
                            !.pl = IF level # TpTag THEN RemovePending(s.pl, level)
                                   ELSE s.pl]
             ELSE [s EXCEPT !.pl = IF level # <<>> /\ level # TpTag
                                   THEN RemovePending(s.pl, level) ELSE s.pl]
        ELSE IF rec.status \in REMOVE
        THEN IF oid \in DOMAIN s.os
             THEN [s EXCEPT !.filled = IF rec.status = "FILLED" /\ ~is_tp
                                       THEN Append(s.filled, s.os[oid])
                                       ELSE s.filled,
                            !.os = DictDel(s.os, oid),
                            !.ks = Without(s.ks, oid),
                            !.oc = IF ~is_tp THEN s.oc - 1 ELSE s.oc,
                            !.pl = IF ~is_tp THEN RemovePending(s.pl, level)
                                   ELSE s.pl]
             ELSE s
        ELSE IF rec.status \in REJECTED
        THEN [s EXCEPT !.pl = RemovePending(s.pl, level)]
        ELSE s

RECURSIVE ApplyBatch(_, _)
ApplyBatch(s, data) ==
    IF data = <<>> THEN s
    ELSE ApplyBatch(ApplyRecord(s, Head(data)), Tail(data))

OmsState == [os |-> orders_state, ks |-> order_keys, oc |-> order_count,
             pl |-> pending_levels, filled |-> <<>>]

\* does processing rec in state s reach a _remove_pending_level call
RemovesPending(s, rec) ==
    LET level == Tail3(rec.order.cloid)
    IN  IF rec.status \in OVERWRITE
        THEN IF rec.order.oid # NoOid THEN level # TpTag
             ELSE level # <<>> /\ level # TpTag
        ELSE IF rec.status \in REMOVE
        THEN rec.order.oid \in DOMAIN s.os /\ level # TpTag
        ELSE rec.status \in REJECTED

(***************************************************************************)
(* History of requests: an order update for level L answers the oldest     *)
(* unanswered place/amend request for L; a request stops being covered     *)
(* when the level's pending entry is removed.                              *)
(***************************************************************************)
Min(a, b) == IF a <= b THEN a ELSE b
Max(a, b) == IF a >= b THEN a ELSE b
ZeroCount == [l \in Levels |-> 0]

Answer(g, level, removes) ==
    IF level \notin Levels THEN g
    ELSE LET n == Max(0, g.inflight[level] - 1)
         IN  [inflight |-> [g.inflight EXCEPT ![level] = n],
              covered |-> [g.covered EXCEPT ![level] =
                              IF removes THEN 0 ELSE Min(@, n)]]

RECURSIVE AnswerBatch(_, _, _)
AnswerBatch(s, g, data) ==
    IF data = <<>> THEN g
    ELSE AnswerBatch(ApplyRecord(s, Head(data)),
                     Answer(g, Tail3(Head(data).order.cloid),
                            RemovesPending(s, Head(data))),
                     Tail(data))

\* number of requests in a sequence of orders that carry level tag l
RECURSIVE CountLevel(_, _)
CountLevel(orders, l) ==
    IF orders = <<>> THEN 0
    ELSE (IF Head(orders).cloid # NoCloid /\ Tail3(Head(orders).cloid) = l
          THEN 1 ELSE 0) + CountLevel(Tail(orders), l)

Issued(cnt, orders) ==
    [l \in Levels |-> Min(MaxInflight, cnt[l] + CountLevel(orders, l))]
IssuedCovered(cnt, orders, pl) ==
    [l \in Levels |-> IF l \in DOMAIN pl
                      THEN Min(MaxInflight, cnt[l] + CountLevel(orders, l))
                      ELSE cnt[l]]
Uncover(cnt, pl) == [l \in Levels |-> IF l \in DOMAIN pl THEN cnt[l] ELSE 0]

(***************************************************************************)
(* Requests to the exchange.                                               *)
(***************************************************************************)
RECURSIVE Requests(_, _)
Requests(op, orders) ==
    IF orders = <<>> THEN <<>>
    ELSE <<[op |-> op, order |-> Head(orders)]>> \o Requests(op, Tail(orders))

CancelAllRequest == [op |-> "cancel_all_orders", order |-> NoOrder]

\* mutant: cancel_all clears whatever the exchange answers
CancelAllPendingAlways(pl, response) == EmptyMap

\* OMS.cancel_all, once the exchange has answered without raising
CancelAllPending(pl, response) == IF response = "ERROR" THEN pl ELSE EmptyMap

(***************************************************************************)
(* Scheduling: asyncio runs one task until it awaits.  The positions at    *)
(* which the worker is suspended, so that other tasks and the clock move.  *)
(***************************************************************************)
\* mutant: the loop of update yields after every iteration
SuspensionPointsWithLoop == {"idle", "loop", "place_markets", "cancel_mkt", "gather",
                             "cancel_excess", "cancel_all", "su_cancel", "su_place"}

SuspensionPoints == {"idle", "place_markets", "cancel_mkt", "gather",
                     "cancel_excess", "cancel_all", "su_cancel", "su_place"}

OthersMayRun == pc \in SuspensionPoints

(***************************************************************************)
(* Initial state: OMS.__init__                                             *)
(***************************************************************************)
OmsInit ==
    /\ now = 0
    /\ orders_state = EmptyMap
    /\ order_keys = <<>>
    /\ pending_levels = EmptyMap
    /\ order_count = 0
    /\ tp_tasks = <<>>
    /\ pc = "idle"
    /\ call = NoCall
    /\ sent = <<>>
    /\ inflight = ZeroCount
    /\ covered = ZeroCount
    /\ rejected = {}
    /\ drift = FALSE

\* The clock.  The OMS reads it only inside the loop of update, so time that
\* passes while an operation awaits the exchange is time that passes before
\* the next operation: the clock advances between operations.
Tick ==
    /\ pc = "idle"
    /\ now + TickMs <= MaxNow
    /\ now' = now + TickMs
    /\ UNCHANGED <<orders_state, order_keys, pending_levels, order_count, tp_tasks, pc,
                   call, sent, inflight, covered, rejected, drift,
                   busvars, mmvars>>

(***************************************************************************)
(* OMS._place_take_profits, run as its own task                            *)
(***************************************************************************)
TpStart(k) ==
    /\ OthersMayRun
    /\ k \in 1..Len(tp_tasks)
    /\ tp_tasks[k].st = "scheduled"
    /\ tp_tasks' = [tp_tasks EXCEPT ![k].st = "awaiting",
                                    ![k].sent = TakeProfits(tp_tasks[k].filled)]
    /\ UNCHANGED <<now, orders_state, order_keys, pending_levels, order_count, pc, call,
                   sent, inflight, covered, rejected, drift,
                   busvars, mmvars>>

\* place_orders has returned the responses of create_order, exceptions among
\* them (return_exceptions=True, line 119); it has logged the failures, and
\* the task prints, logs and ends whatever the responses are
TpDone(k, response) ==
    /\ OthersMayRun
    /\ k \in 1..Len(tp_tasks)
    /\ tp_tasks[k].st = "awaiting"
    /\ tp_tasks' = [j \in 1..(Len(tp_tasks) - 1) |->
                        IF j < k THEN tp_tasks[j] ELSE tp_tasks[j + 1]]
    /\ UNCHANGED <<now, orders_state, order_keys, pending_levels, order_count, pc, call,
                   sent, inflight, covered, rejected, drift,
                   busvars, mmvars>>

(***************************************************************************)
(* OMS.update(new_orders, lob)                                             *)
(***************************************************************************)
Abs(x) == IF x < 0 THEN 0 - x ELSE x

\* OMS.is_out_of_bounds with sensitivity 0.1 (both sides multiplied by 10)
is_out_of_bounds(old_order, new_order, mid) ==
    IF old_order = NoOrder THEN FALSE
    ELSE LET distance_from_mid == Abs(old_order.price - mid)
         IN  \/ SensitivityInv * new_order.price
                    > SensitivityInv * old_order.price + distance_from_mid
             \/ SensitivityInv * new_order.price
                    < SensitivityInv * old_order.price - distance_from_mid

\* OMS.find_matched_order: the first order, in the dict's order, whose level
\* tag is the new order's; NoOid for the None it returns when there is none
RECURSIVE find_matched_order(_, _, _)
find_matched_order(ks, os, new_order) ==
    IF ks = <<>> THEN NoOid
    ELSE IF Tail3(os[Head(ks)].cloid) = Tail3(new_order.cloid) THEN Head(ks)
    ELSE find_matched_order(Tail(ks), os, new_order)

\* mutant: a matched order is amended whether the new price is in bounds or not
DecideAmendsAlways(pl, os, order, matched, mid, t) ==
    IF IsLevelPending(pl, Tail3(order.cloid), t) THEN "skip"
    ELSE IF matched # NoOid THEN "amend"
    ELSE "place"

\* the branch the loop body takes for one LIMIT order
Decide(pl, os, order, matched, mid, t) ==
    IF IsLevelPending(pl, Tail3(order.cloid), t) THEN "skip"
    ELSE IF matched # NoOid
         THEN IF is_out_of_bounds(os[matched], order, mid) THEN "amend" ELSE "keep"
         ELSE "place"

\* update is entered: nothing has been bucketed yet
UpdateEntry(new_orders, mid) ==
    /\ pc = "idle"
    /\ pc' = "loop"
    /\ call' = [NoCall EXCEPT !.op = "update", !.new_orders = new_orders,
                              !.i = 1, !.mid = mid,
                              !.pending0 = pending_levels, !.t0 = now]
    /\ sent' = <<>>
    /\ drift' = FALSE
    /\ UNCHANGED <<now, orders_state, order_keys, pending_levels, order_count, tp_tasks,
                   inflight, covered, rejected>>

\* OMS.update called by a caller that is not requote
UpdateCall(new_orders, mid) ==
    /\ UpdateEntry(new_orders, mid)
    /\ UNCHANGED <<busvars, mmvars>>

\* one iteration of the for loop (lines 247-267)
UpdateLoop ==
    /\ pc = "loop"
    /\ LET order == call.new_orders[call.i]
           last == call.i = Len(call.new_orders)
           next == IF last THEN "after_loop" ELSE "loop"
       IN  IF order.order_type = "MARKET"
           THEN /\ call' = [call EXCEPT !.markets = Append(@, order), !.i = @ + 1]
                /\ pc' = next
                /\ UNCHANGED <<pending_levels, covered>>
           ELSE IF order.cloid = NoCloid
           THEN \* None[-3:] raises TypeError
                /\ call' = [call EXCEPT !.result = "raised"]
                /\ pc' = "ret"
                /\ UNCHANGED <<pending_levels, covered>>
           ELSE LET level == Tail3(order.cloid)
                    cleaned == CleanupStale(pending_levels, level, now)
                    matched == find_matched_order(order_keys, orders_state, order)
                    d == Decide(pending_levels, orders_state, order,
                                matched, call.mid, now)
                IN        /\ pending_levels' =
                                IF d \in {"amend", "place"}
                                THEN AddPending(cleaned, level, now)
                                ELSE cleaned
                          /\ call' = [call EXCEPT
                                !.amends = IF d = "amend"
                                           THEN Append(@, [order EXCEPT !.oid =
                                                    orders_state[matched].cloid])
                                           ELSE @,
                                !.limits = IF d = "place" THEN Append(@, order) ELSE @,
                                !.i = @ + 1]
                          /\ covered' = Uncover(covered, cleaned)
                          /\ pc' = next
    /\ UNCHANGED <<now, orders_state, order_keys, order_count, tp_tasks, sent, inflight,
                   rejected, drift,
                   busvars, mmvars>>

\* mutant: the live orders whose level no order of the call carries are
\* put in the cancels bucket
cancels_absent(os, new_orders) ==
    LET quoted == {Tail3(new_orders[i].cloid) :
                      i \in {j \in 1..Len(new_orders) : new_orders[j].cloid # NoCloid}}
        absent == {oid \in DOMAIN os : /\ Tail3(os[oid].cloid) # TpTag
                                        /\ Tail3(os[oid].cloid) \notin quoted}
    IN  IF absent = {} THEN <<>> ELSE <<os[CHOOSE oid \in absent : TRUE]>>

\* the cancels bucket of update after the loop: it is created empty (line
\* 244) and no branch of the loop (lines 247-267) appends to it
cancels(os, new_orders) == <<>>

\* the gather of cancel_orders(cancels), place_orders(limits) and
\* amend_orders(amends) starts; a bucket that is empty adds no task, and the
\* one bulk_cancel_order request is shown once per order it names
Dispatch(pl, cov) ==
    /\ sent' = sent \o Requests("bulk_cancel_order",
                                 cancels(orders_state, call.new_orders))
                    \o Requests("create_order", call.limits)
                    \o Requests("amend_order", call.amends)
    /\ inflight' = Issued(inflight, call.limits \o call.amends)
    /\ covered' = IssuedCovered(cov, call.limits \o call.amends, pl)
    /\ pc' = "gather"

\* after the loop: markets first if there are any (line 268)
UpdateAfterLoop ==
    /\ pc = "after_loop"
    /\ IF call.markets # <<>>
       THEN /\ sent' = sent \o Requests("create_order", call.markets)
            /\ pc' = "place_markets"
            /\ UNCHANGED <<inflight, covered>>
       ELSE Dispatch(pending_levels, covered)
    /\ UNCHANGED <<now, orders_state, order_keys, pending_levels, order_count, tp_tasks,
                   call, rejected, drift,
                   busvars, mmvars>>

\* place_orders(markets) has returned; cancel_all is awaited (line 270)
PlaceMarketsDone ==
    /\ pc = "place_markets"
    /\ sent' = Append(sent, CancelAllRequest)
    /\ pc' = "cancel_mkt"
    /\ UNCHANGED <<now, orders_state, order_keys, pending_levels, order_count, tp_tasks,
                   call, inflight, covered, rejected, drift,
                   busvars, mmvars>>

\* cancel_all of the market path is answered; the gather follows
CancelMktDone(response) ==
    /\ pc = "cancel_mkt"
    /\ IF response = "RAISE"
       THEN /\ call' = [call EXCEPT !.result = "raised"]
            /\ pc' = "ret"
            /\ UNCHANGED <<pending_levels, sent, inflight, covered>>
       ELSE /\ pending_levels' = CancelAllPending(pending_levels, response)
            /\ Dispatch(pending_levels', Uncover(covered, pending_levels'))
            /\ UNCHANGED call
    /\ UNCHANGED <<now, orders_state, order_keys, order_count, tp_tasks, rejected, drift,
                   busvars, mmvars>>

\* mutant: the safety net fires one order late
ExceedsMaxOrdersLate(count) == count > num_orders + 1

\* the safety net of line 282
ExceedsMaxOrders(count) == count > num_orders

\* mutant: the orders of requests the exchange accepted are counted as live
GatherDoneCountsOrders(response) ==
    LET gathered == IF call.limits \o call.amends = <<>> THEN None ELSE response
    IN  /\ pc = "gather"
        /\ IF ExceedsMaxOrders(order_count)
           THEN /\ sent' = Append(sent, CancelAllRequest)
                /\ pc' = "cancel_excess"
                /\ call' = [call EXCEPT !.gathered = gathered]
           ELSE /\ call' = [call EXCEPT !.gathered = gathered, !.result = "returned"]
                /\ pc' = "ret"
                /\ UNCHANGED sent
        /\ order_count' = IF gathered = "OK"
                          THEN Min(MaxCount, order_count + Len(call.limits))
                          ELSE order_count
        /\ UNCHANGED <<now, orders_state, order_keys, pending_levels, tp_tasks,
                       inflight, covered, rejected, drift,
                       busvars, mmvars>>

\* mutant: a failed request gives its level back
GatherDoneFreesLevels(response) ==
    LET gathered == IF call.limits \o call.amends = <<>> THEN None ELSE response
    IN  /\ pc = "gather"
        /\ IF ExceedsMaxOrders(order_count)
           THEN /\ sent' = Append(sent, CancelAllRequest)
                /\ pc' = "cancel_excess"
                /\ call' = [call EXCEPT !.gathered = gathered]
           ELSE /\ call' = [call EXCEPT !.gathered = gathered, !.result = "returned"]
                /\ pc' = "ret"
                /\ UNCHANGED sent
        /\ pending_levels' = IF gathered \in {"ERROR", "RAISE"} THEN EmptyMap
                             ELSE pending_levels
        /\ UNCHANGED <<now, orders_state, order_keys, order_count, tp_tasks,
                       inflight, covered, rejected, drift,
                       busvars, mmvars>>

\* the gather of line 280 has returned: place_orders and amend_orders have
\* gathered the responses of their requests, exceptions among them
\* (return_exceptions=True), and logged the failures; then the order_count
\* check of line 282.  response is what the exchange answered the requests.
GatherDone(response) ==
    LET gathered == IF call.limits \o call.amends = <<>> THEN None ELSE response
    IN  /\ pc = "gather"
        /\ IF ExceedsMaxOrders(order_count)
           THEN /\ sent' = Append(sent, CancelAllRequest)
                /\ pc' = "cancel_excess"
                /\ call' = [call EXCEPT !.gathered = gathered]
           ELSE /\ call' = [call EXCEPT !.gathered = gathered, !.result = "returned"]
                /\ pc' = "ret"
                /\ UNCHANGED sent
        /\ UNCHANGED <<now, orders_state, order_keys, pending_levels, order_count, tp_tasks,
                       inflight, covered, rejected, drift,
                       busvars, mmvars>>

CancelExcessDone(response) ==
    /\ pc = "cancel_excess"
    /\ IF response = "RAISE"
       THEN /\ call' = [call EXCEPT !.result = "raised"]
            /\ UNCHANGED <<pending_levels, covered>>
       ELSE /\ pending_levels' = CancelAllPending(pending_levels, response)
            /\ covered' = Uncover(covered, pending_levels')
            /\ call' = [call EXCEPT !.result = "returned"]
    /\ drift' = IF response = "OK" THEN TRUE ELSE drift
    /\ pc' = "ret"
    /\ UNCHANGED <<now, orders_state, order_keys, order_count, tp_tasks, sent, inflight,
                   rejected, busvars, mmvars>>

(***************************************************************************)
(* OMS.cancel_all() called on its own                                      *)
(***************************************************************************)
CancelAllCall ==
    /\ pc = "idle"
    /\ pc' = "cancel_all"
    /\ call' = [NoCall EXCEPT !.op = "cancel_all", !.pending0 = pending_levels,
                              !.t0 = now]
    /\ sent' = <<CancelAllRequest>>
    /\ UNCHANGED <<now, orders_state, order_keys, pending_levels, order_count, tp_tasks,
                   inflight, covered, rejected, drift,
                   busvars, mmvars>>

CancelAllDone(response) ==
    /\ pc = "cancel_all"
    /\ IF response = "RAISE"
       THEN /\ call' = [call EXCEPT !.result = "raised"]
            /\ UNCHANGED <<pending_levels, covered>>
       ELSE /\ pending_levels' = CancelAllPending(pending_levels, response)
            /\ covered' = Uncover(covered, pending_levels')
            /\ call' = [call EXCEPT !.result = "returned"]
    /\ pc' = "ret"
    /\ UNCHANGED <<now, orders_state, order_keys, order_count, tp_tasks, sent, inflight,
                   rejected, drift,
                   busvars, mmvars>>

(***************************************************************************)
(* OMS.simple_update(new_orders)                                           *)
(***************************************************************************)
SimpleCall(new_orders) ==
    /\ pc = "idle"
    /\ pc' = "su_cancel"
    /\ call' = [NoCall EXCEPT !.op = "simple_update", !.new_orders = new_orders,
                              !.pending0 = pending_levels, !.t0 = now]
    /\ sent' = <<CancelAllRequest>>
    /\ UNCHANGED <<now, orders_state, order_keys, pending_levels, order_count, tp_tasks,
                   inflight, covered, rejected, drift,
                   busvars, mmvars>>

SimpleCancelDone(response) ==
    /\ pc = "su_cancel"
    /\ IF response = "RAISE"
       THEN \* caught by the try/except of simple_update
            /\ call' = [call EXCEPT !.result = "returned"]
            /\ pc' = "ret"
            /\ UNCHANGED <<pending_levels, sent, inflight, covered>>
       ELSE /\ pending_levels' = CancelAllPending(pending_levels, response)
            /\ covered' = Uncover(covered, pending_levels')
            /\ sent' = sent \o Requests("create_order", call.new_orders)
            /\ inflight' = Issued(inflight, call.new_orders)
            /\ pc' = "su_place"
            /\ UNCHANGED call
    /\ UNCHANGED <<now, orders_state, order_keys, order_count, tp_tasks, rejected, drift,
                   busvars, mmvars>>

SimplePlaceDone ==
    /\ pc = "su_place"
    /\ call' = [call EXCEPT !.result = "returned"]
    /\ pc' = "ret"
    /\ UNCHANGED <<now, orders_state, order_keys, pending_levels, order_count, tp_tasks,
                   sent, inflight, covered, rejected, drift,
                   busvars, mmvars>>

\* the operation hands control back to MarketMaker._process_events
Return ==
    /\ pc = "ret"
    /\ pc' = "idle"
    /\ call' = NoCall
    /\ sent' = <<>>
    /\ rejected' = IF call.op = "update" THEN {} ELSE rejected
    /\ UNCHANGED <<now, orders_state, order_keys, pending_levels, order_count, tp_tasks,
                   inflight, covered, drift,
                   busvars, mmvars>>

(***************************************************************************)
(* The event bus: MultiEventBus over one EventBus per stream key.  Every   *)
(* EventBus wraps an asyncio.Queue.  A producer is a stream handler task;  *)
(* the consumer of a key is the worker of that symbol.                     *)
(***************************************************************************)
Keys == {"BTCUSDT", "ETHUSDT"}
UnknownKey == "XRPUSDT"
AllKeys == Keys \cup {UnknownKey}
Producers == {"orderbook", "order"}
MaxSizes == {0, 1, 2}
MainMaxsize == 0

Event(seq_id, event_type, data) ==
    [seq_id |-> seq_id, event_type |-> event_type, data |-> data]
NoEvent == Event(0, None, None)

\* what a put or get call ended with: the seq_id it returned, or the error raised
Result(kind, seq_id) == [kind |-> kind, seq_id |-> seq_id]
NoResult == Result(None, 0)
Returned(seq_id) == Result("returned", seq_id)
Raised(error) == Result(error, 0)

Idle(result) == [st |-> "idle", key |-> None, evt |-> NoEvent, result |-> result]

\* MultiEventBus.__init__ / EventBus.__init__
BusInit(size) ==
    /\ maxsize = size
    /\ queue = [k \in Keys |-> <<>>]
    /\ last_id = [k \in Keys |-> 0]
    /\ closed = [k \in Keys |-> FALSE]
    /\ putters = [k \in Keys |-> <<>>]
    /\ prod = [p \in Producers |-> Idle(NoResult)]
    /\ cons = [k \in AllKeys |-> Idle(NoResult)]
    /\ got = [k \in Keys |-> <<>>]

\* Queue.full comparing with > instead of >=
FullAbove(q) == maxsize > 0 /\ Len(q) > maxsize

\* asyncio.Queue.full
Full(q) == maxsize > 0 /\ Len(q) >= maxsize

\* EventBus.empty
Empty(k) == queue[k] = <<>>

\* EventBus._next_id
NextId(k) == last_id[k] + 1

\* Queue._wakeup_next(self._getters): the consumer suspended in get is resumed
WakeGetter(c, k) ==
    IF c[k].st = "waiting" THEN [c EXCEPT ![k].st = "woken"] ELSE c

\* Queue._wakeup_next(self._putters): the first suspended producer is resumed
WakePutter(pr, ps) ==
    IF ps = <<>> THEN pr ELSE [pr EXCEPT ![Head(ps)].st = "woken"]

RECURSIVE SumOver(_, _)
SumOver(f, S) ==
    IF S = {} THEN 0
    ELSE LET x == CHOOSE y \in S : TRUE IN f[x] + SumOver(f, S \ {x})

\* sequence numbers handed out so far, over all keys
Accepted == SumOver(last_id, Keys)

\* mutant: one closed flag for the whole bus
PutErrorAnyClosed(k) ==
    IF k \notin Keys THEN "UnknownStreamKeyError"
    ELSE IF \E j \in Keys : closed[j] THEN "RuntimeError"
    ELSE None

\* the closed test of EventBus.put without the test itself
PutErrorIgnoresClose(k) ==
    IF k \notin Keys THEN "UnknownStreamKeyError" ELSE None

\* the exception a put on stream key k raises before it takes a sequence
\* number: the key test of MultiEventBus.put, then the closed test of
\* EventBus.put; None when it raises nothing
PutError(k) ==
    IF k \notin Keys THEN "UnknownStreamKeyError"
    ELSE IF closed[k] THEN "RuntimeError"
    ELSE None

\* MultiEventBus.put -> EventBus.put, up to its first suspension
Put(p, k) ==
    /\ OthersMayRun
    /\ prod[p].st = "idle"
    /\ IF PutError(k) # None
       THEN /\ prod' = [prod EXCEPT ![p] = Idle(Raised(PutError(k)))]
            /\ UNCHANGED <<queue, last_id, putters, cons>>
       ELSE LET seq_id == NextId(k)
                evt == Event(seq_id, p, k)
            IN  /\ Accepted < MaxEvents
                /\ last_id' = [last_id EXCEPT ![k] = seq_id]
                /\ IF Full(queue[k])
                   THEN /\ putters' = [putters EXCEPT ![k] = Append(@, p)]
                        /\ prod' = [prod EXCEPT ![p] =
                                       [st |-> "waiting", key |-> k, evt |-> evt,
                                        result |-> NoResult]]
                        /\ UNCHANGED <<queue, cons>>
                   ELSE /\ queue' = [queue EXCEPT ![k] = Append(@, evt)]
                        /\ cons' = WakeGetter(cons, k)
                        /\ prod' = [prod EXCEPT ![p] = Idle(Returned(seq_id))]
                        /\ UNCHANGED putters
    /\ UNCHANGED <<maxsize, closed, got, omsvars, mmvars>>

\* a producer woken by a get runs again: the while self.full() of Queue.put
PutResume(p) ==
    /\ OthersMayRun
    /\ prod[p].st = "woken"
    /\ LET k == prod[p].key
           evt == prod[p].evt
       IN  IF Full(queue[k])
           THEN /\ putters' = [putters EXCEPT ![k] = Append(@, p)]
                /\ prod' = [prod EXCEPT ![p].st = "waiting"]
                /\ UNCHANGED <<queue, cons>>
           ELSE /\ queue' = [queue EXCEPT ![k] = Append(@, evt)]
                /\ cons' = WakeGetter(cons, k)
                /\ prod' = [prod EXCEPT ![p] = Idle(Returned(evt.seq_id))]
                /\ UNCHANGED putters
    /\ UNCHANGED <<maxsize, last_id, closed, got, omsvars, mmvars>>

\* Queue.get_nowait: the head leaves the queue and the first putter is woken
Take(k) ==
    /\ queue' = [queue EXCEPT ![k] = Tail(@)]
    /\ got' = [got EXCEPT ![k] = Append(@, Head(queue[k]))]
    /\ prod' = WakePutter(prod, putters[k])
    /\ putters' = [putters EXCEPT ![k] = IF @ = <<>> THEN @ ELSE Tail(@)]
    /\ cons' = [cons EXCEPT ![k] = Idle(Returned(Head(queue[k]).seq_id))]

\* MultiEventBus.get -> EventBus.get, up to its first suspension
Get(k) ==
    /\ cons[k].st = "idle"
    /\ IF k \notin Keys
       THEN \* UnknownStreamKeyError
            /\ cons' = [cons EXCEPT ![k] = Idle(Raised("UnknownStreamKeyError"))]
            /\ UNCHANGED <<queue, putters, prod, got>>
       ELSE IF Empty(k)
       THEN /\ cons' = [cons EXCEPT ![k] = [st |-> "waiting", key |-> k,
                                            evt |-> NoEvent, result |-> NoResult]]
            /\ UNCHANGED <<queue, putters, prod, got>>
       ELSE Take(k)
    /\ UNCHANGED <<maxsize, last_id, closed, omsvars, mmvars>>

\* a consumer woken by a put runs again: the while self.empty() of Queue.get
GetResume(k) ==
    /\ cons[k].st = "woken"
    /\ IF Empty(k)
       THEN /\ cons' = [cons EXCEPT ![k].st = "waiting"]
            /\ UNCHANGED <<queue, putters, prod, got>>
       ELSE Take(k)
    /\ UNCHANGED <<maxsize, last_id, closed, omsvars, mmvars>>

\* MultiEventBus.close
Close(k) ==
    /\ OthersMayRun
    /\ k \in Keys
    /\ ~closed[k]
    /\ closed' = [closed EXCEPT ![k] = TRUE]
    /\ UNCHANGED <<maxsize, queue, last_id, putters, prod, cons, got, omsvars, mmvars>>

(***************************************************************************)
(* The symbol worker's loop, MarketMaker._process_events.  The handler of  *)
(* an event is taken by how it ends: it returns or it raises.  The log of  *)
(* the worker is its history: per handled event its seq_id, how the        *)
(* handler ended and when; per failed get the exception; the cancellation. *)
(***************************************************************************)
sleep_ms == 500
MaxRetries == 2

\* MarketMaker.__init__: the symbol is given at construction
NewWorker == [symbol |-> None, st |-> "new", evt |-> NoEvent, wake |-> 0, log |-> <<>>]

\* MarketMaker(symbol, ...).start(): _process_events is entered
WorkerStart(symbol) ==
    /\ worker.st = "new"
    /\ worker' = [worker EXCEPT !.symbol = symbol, !.st = "get"]
    /\ UNCHANGED <<busvars, omsvars,
                   lob, position, last_requote_time, quoter, requote_log, rounded, checked,
                   partvars>>

\* line 76: the worker calls queue.get(self.symbol), or, woken by a put, runs
\* again inside it
WorkerGet ==
    /\ worker.st = "get"
    /\ \/ cons[worker.symbol].result = NoResult /\ Get(worker.symbol)
       \/ worker.symbol \in Keys /\ GetResume(worker.symbol)

\* the await of line 76 is over: get returned the event and _process_event
\* starts on it (line 77), or get raised and the worker sleeps (lines 81-83)
GetDone ==
    LET k == worker.symbol
    IN  /\ worker.st = "get"
        /\ cons[k].st = "idle"
        /\ cons[k].result # NoResult
        /\ IF cons[k].result.kind = "returned"
           THEN worker' = [worker EXCEPT !.st = "handle",
                                         !.evt = got[k][Len(got[k])]]
           ELSE /\ Len(worker.log) < MaxRetries
                /\ worker' = [worker EXCEPT !.st = "sleep",
                                 !.wake = now + sleep_ms,
                                 !.log = Append(@, [seq_id |-> 0, outcome |-> cons[k].result.kind,
                                                    t |-> now])]
        /\ cons' = [cons EXCEPT ![k] = Idle(NoResult)]
        /\ UNCHANGED <<maxsize, queue, last_id, closed, putters, prod, got, omsvars,
                       lob, position, last_requote_time, quoter, requote_log, rounded, checked,
                   partvars>>

\* mutant: an exception of the handler ends the worker
HandlerDoneFatal(outcome) ==
    /\ worker.st = "handle"
    /\ worker' = [worker EXCEPT
                     !.st = IF outcome = "raised" THEN "exited" ELSE "get",
                     !.evt = NoEvent,
                     !.wake = IF outcome = "raised" THEN now + sleep_ms ELSE @,
                     !.log = Append(@, [seq_id |-> worker.evt.seq_id,
                                        outcome |-> outcome, t |-> now])]
    /\ UNCHANGED <<busvars, omsvars,
                   lob, position, last_requote_time, quoter, requote_log, rounded, checked,
                   partvars>>

\* _process_event is over (line 77): it returned and the loop goes round, or
\* it raised and the worker sleeps (lines 81-83)
HandlerDone(outcome) ==
    /\ worker.st = "handle"
    /\ worker' = [worker EXCEPT
                     !.st = IF outcome = "raised" THEN "sleep" ELSE "get",
                     !.evt = NoEvent,
                     !.wake = IF outcome = "raised" THEN now + sleep_ms ELSE @,
                     !.log = Append(@, [seq_id |-> worker.evt.seq_id,
                                        outcome |-> outcome, t |-> now])]
    /\ UNCHANGED <<busvars, omsvars,
                   lob, position, last_requote_time, quoter, requote_log, rounded, checked,
                   partvars>>

\* asyncio.sleep(0.5) of line 83 is over: the loop goes round
SleepDone ==
    /\ worker.st = "sleep"
    /\ now' = Max(now, worker.wake)
    /\ worker' = [worker EXCEPT !.st = "get"]
    /\ UNCHANGED <<orders_state, order_keys, pending_levels, order_count, tp_tasks, pc,
                   call, sent, inflight, covered, rejected, drift, busvars,
                   lob, position, last_requote_time, quoter, requote_log, rounded, checked,
                   partvars>>

\* the worker's task is cancelled while it is suspended in get, in the handler
\* or in the sleep: CancelledError ends the loop (lines 78-80; raised inside
\* the sleep of line 83 it leaves _process_events uncaught)
Cancel ==
    LET k == worker.symbol
    IN  /\ \/ worker.st \in {"handle", "sleep"}
           \/ worker.st = "get" /\ cons[k].st \in {"waiting", "woken"}
        /\ worker' = [worker EXCEPT !.st = "exited",
                                    !.evt = NoEvent,
                                    !.log = Append(@, [seq_id |-> worker.evt.seq_id,
                                                       outcome |-> "cancelled",
                                                       t |-> now])]
        /\ cons' = [cons EXCEPT ![k] = Idle(NoResult)]
        /\ UNCHANGED <<maxsize, queue, last_id, closed, putters, prod, got, omsvars,
                       lob, position, last_requote_time, quoter, requote_log, rounded, checked,
                   partvars>>

(***************************************************************************)
(* round_step on floats.  Numbers are in thousandths.  ulp is the distance *)
(* of neighbouring floats at the magnitude of the input: 1 where the       *)
(* floats are finer than the decimals in use, so that str and float give   *)
(* back the decimal (numbers of at most 15 significant digits), and 125    *)
(* for inputs between 2^49 and 2^50, where the floats are the eighths and  *)
(* the number stands for its offset from a whole base.                     *)
(***************************************************************************)
\* float(d): the float nearest to the decimal d, the even one of two equally
\* near
to_float(d, ulp) ==
    LET lo == (d \div ulp) * ulp
        hi == lo + ulp
    IN  IF d = lo THEN d
        ELSE IF d - lo < hi - d THEN lo
        ELSE IF d - lo > hi - d THEN hi
        ELSE IF (lo \div ulp) % 2 = 0 THEN lo ELSE hi

\* Decimal(str(x)): str prints the decimal of fewest digits that float reads
\* back as x, the nearest to x of these, the one of even last digit of two
\* equally near
float_str(x, ulp) ==
    LET Reads(g) == {d \in (x - ulp)..(x + ulp) : d % g = 0 /\ to_float(d, ulp) = x}
        g == CHOOSE h \in {1000, 100, 10, 1} :
                 /\ Reads(h) # {}
                 /\ \A k \in {1000, 100, 10, 1} : Reads(k) # {} => k <= h
        Near == {d \in Reads(g) : \A e \in Reads(g) : Abs(d - x) <= Abs(e - x)}
    IN  CHOOSE d \in Near : Cardinality(Near) = 1 \/ (d \div g) % 2 = 0

\* round_step rounding to the nearest multiple of step
round_step_nearest(x, step, ulp) ==
    to_float(round_step(2 * float_str(x, ulp) + step, 2, step), ulp)

\* round_step of rounding_utils: num = Decimal(str(num));
\* float(num - num % Decimal(str(step)))
round_step_float(x, step, ulp) ==
    to_float(round_step(float_str(x, ulp), 1, step), ulp)

NoRounding == [x |-> 0, step |-> 1, ulp |-> 1, st |-> None, once |-> 0, twice |-> 0]

\* inputs of round_step: decimals of few digits, negative ones included, and
\* the floats of two units between 2^49 and 2^50
RoundInputs ==
    {[NoRounding EXCEPT !.x = 25 * k, !.step = step, !.st = "input"] :
        k \in (0 - 20)..60, step \in {100, 250, 300, 1000}}
    \cup {[NoRounding EXCEPT !.x = 125 * k, !.step = step, !.ulp = 125, !.st = "input"] :
              k \in 0..16, step \in {100, 250, 500}}

\* round_step(x, step), then round_step of that result
RoundCall ==
    /\ rounded.st \in {"input", "once"}
    /\ rounded' = IF rounded.st = "input"
                  THEN [rounded EXCEPT !.st = "once",
                           !.once = round_step_float(rounded.x, rounded.step,
                                                     rounded.ulp)]
                  ELSE [rounded EXCEPT !.st = "twice",
                           !.twice = round_step_float(rounded.once, rounded.step,
                                                      rounded.ulp)]
    /\ UNCHANGED <<omsvars, busvars, lob, position, last_requote_time, quoter,
                   requote_log, checked, partvars, worker>>

(***************************************************************************)
(* is_out_of_bounds on floats.  Prices and mids are eighths, written as    *)
(* their numbers of eightieths, so that the buffer, a tenth of an          *)
(* eighth-valued distance, is a whole number; ulp is the spacing of the    *)
(* floats at the magnitude of the prices as for round_step: 1 where the    *)
(* floats are finer than the eightieths, and 10 for prices between 2^49    *)
(* and 2^50, where the floats are the eighths and the number stands for   *)
(* its offset from a whole base.                                           *)
(***************************************************************************)
MaxEighth == 12

\* is_out_of_bounds with the comparison turned into >= and <=
is_out_of_bounds_inclusive(old_order, new_order, mid, ulp) ==
    IF old_order = NoOrder THEN FALSE
    ELSE LET distance_from_mid == Abs(old_order.price - mid)
             buffer == distance_from_mid \div SensitivityInv
         IN  \/ new_order.price >= to_float(old_order.price + buffer, ulp)
             \/ new_order.price <= to_float(old_order.price - buffer, ulp)

\* OMS.is_out_of_bounds as the floats compute it: old.price + buffer and
\* old.price - buffer are each rounded to a float before the comparison
is_out_of_bounds_float(old_order, new_order, mid, ulp) ==
    IF old_order = NoOrder THEN FALSE
    ELSE LET distance_from_mid == Abs(old_order.price - mid)
             buffer == distance_from_mid \div SensitivityInv
         IN  IF new_order.price > to_float(old_order.price + buffer, ulp) THEN TRUE
             ELSE IF new_order.price < to_float(old_order.price - buffer, ulp) THEN TRUE
             ELSE FALSE

NoCheck == [old |-> NoOrder, new |-> NoOrder, mid |-> 0, ulp |-> 1, st |-> None,
            out |-> FALSE]

\* inputs of is_out_of_bounds: an old order or none, a new order and a mid,
\* all eighths, at both magnitudes
CheckInputs ==
    {[NoCheck EXCEPT !.old = old, !.new = Order("BUY", 1, SensitivityInv * n, "LIMIT", L0, NoOid),
                     !.mid = SensitivityInv * m, !.ulp = ulp, !.st = "input"] :
        old \in {NoOrder} \cup {Order("BUY", 1, SensitivityInv * o, "LIMIT", L0, O1) :
                                    o \in 0..MaxEighth},
        n \in 0..MaxEighth, m \in 0..MaxEighth, ulp \in {1, SensitivityInv}}

\* is_out_of_bounds(old, new, mid)
CheckCall ==
    /\ checked.st = "input"
    /\ checked' = [checked EXCEPT !.st = "done",
                      !.out = is_out_of_bounds_float(checked.old, checked.new,
                                                     checked.mid, checked.ulp)]
    /\ UNCHANGED <<omsvars, busvars, lob, position, last_requote_time, quoter,
                   requote_log, rounded, partvars, worker>>

(***************************************************************************)
(* The symbol worker's quoting path: LOBManager, PositionManager,          *)
(* SimpleQuoter and MarketMaker.requote.  Prices are in units of 0.01 and  *)
(* amounts in units of 0.0001; a skew is a numerator over                  *)
(* inventory_max_dollars.  Products and quotients are exact, the float     *)
(* arithmetic of the source is not modelled bit for bit.                   *)
(***************************************************************************)
\* config["mm"][...] of SimpleQuoter.__init__, config[...] of MarketMaker.__init__
lot_size == 10
spread_bps == 10
gross_exposure_dollars == 100
epsilon == 11
inventory_max_dollars == 2
min_requote_interval == 100

\* inputs: the mids of orderbook events, the outputs of the quoter's
\* volatility estimator, the net positions of position events, the elapsed
\* milliseconds at which the clock is read
QuoteMids == {0, 9990, 10000, 10010}
Vols == {0, 10}
Positions == (0 - inventory_max_dollars)..inventory_max_dollars
ClockReadings == {10, 100, min_requote_interval * 1000 - 10,
                  min_requote_interval * 1000, min_requote_interval * 1000 + 10,
                  2 * min_requote_interval * 1000 + 10}

\* time_ms() when the clock of the model reads t: the worker is constructed
\* at an epoch time that is beyond any requote interval
time_ms(t) == min_requote_interval * 1000 + t

\* SimpleQuoter.__init__
NewQuoter == [last_mid |-> 0, prev_bid_skew |-> 0, prev_ask_skew |-> 0, prev_vol |-> 0]

\* since: the mid of the last call of generate_quote_v2 that returned quotes
NoRequote == [forced |-> FALSE, executed |-> FALSE, raised |-> FALSE, quotes |-> <<>>,
              oms_update |-> FALSE, since |-> 0]

(***************************************************************************)
(* VolatilityEstimator.  Samples are whole numbers; prec is the number of  *)
(* significant bits of the floats: the 53 bits of a double scaled down so  *)
(* that the rounding shows on small numbers (2^prec plays the part of      *)
(* 2^53), or so many bits that nothing in the model's range is rounded.    *)
(***************************************************************************)
window_size == 2
MaxSamples == 5
Samples == {0, 1, 3, 16}

\* the float nearest to x among those of prec significant bits, the one of
\* even mantissa of two equally near
fl(x, prec) ==
    IF x = 0 THEN 0
    ELSE LET ulp == CHOOSE q \in {2 ^ k : k \in 0..16} :
                        /\ Abs(x) < (2 ^ prec) * q
                        /\ q = 1 \/ Abs(x) >= (2 ^ (prec - 1)) * q
         IN  to_float(x, ulp)

NoEstimator == [n |-> 0, buffer |-> <<>>, sum |-> 0, sum_sq |-> 0, count |-> 0,
                prec |-> 0, seen |-> <<>>, x_old |-> 0]

\* VolatilityEstimator.__init__(window_size) on floats of prec bits
EstimatorNew(n, prec) ==
    /\ estimator = NoEstimator
    /\ estimator' = [NoEstimator EXCEPT !.n = n, !.buffer = [i \in 1..n |-> 0],
                                        !.prec = prec]
    /\ UNCHANGED <<omsvars, busvars, lob, position, last_requote_time, quoter,
                   requote_log, rounded, checked, positions, received, worker>>

\* mutant: the departing sample is the newest of the window
EstimatorUpdateNewest(x_new) ==
    LET e == estimator
        x_old == IF e.count < e.n THEN 0 ELSE e.buffer[e.n]
    IN  /\ e.n > 0
        /\ Len(e.seen) < MaxSamples
        /\ estimator' =
              [e EXCEPT !.count = IF e.count < e.n THEN e.count + 1 ELSE e.count,
                        !.buffer = Tail(e.buffer) \o <<x_new>>,
                        !.sum = fl(e.sum + fl(x_new - x_old, e.prec), e.prec),
                        !.sum_sq = fl(e.sum_sq + fl(fl(x_new * x_new, e.prec)
                                                      - fl(x_old * x_old, e.prec),
                                                    e.prec), e.prec),
                        !.seen = Append(e.seen, x_new),
                        !.x_old = x_old]
        /\ UNCHANGED <<omsvars, busvars, lob, position, last_requote_time, quoter,
                       requote_log, rounded, checked, positions, received, worker>>

\* VolatilityEstimator.update(x_new), lines 13-21: the sums after the call;
\* seen and x_old are history.  The volatility it returns (lines 23-27) is
\* an input of the quoter's model (Vols)
EstimatorUpdate(x_new) ==
    LET e == estimator
        x_old == IF e.count < e.n THEN 0 ELSE e.buffer[1]
    IN  /\ e.n > 0
        /\ Len(e.seen) < MaxSamples
        /\ estimator' =
              [e EXCEPT !.count = IF e.count < e.n THEN e.count + 1 ELSE e.count,
                        !.buffer = Tail(e.buffer) \o <<x_new>>,
                        !.sum = fl(e.sum + fl(x_new - x_old, e.prec), e.prec),
                        !.sum_sq = fl(e.sum_sq + fl(fl(x_new * x_new, e.prec)
                                                      - fl(x_old * x_old, e.prec),
                                                    e.prec), e.prec),
                        !.seen = Append(e.seen, x_new),
                        !.x_old = x_old]
        /\ UNCHANGED <<omsvars, busvars, lob, position, last_requote_time, quoter,
                       requote_log, rounded, checked, positions, received, worker>>

(***************************************************************************)
(* PositionManager                                                         *)
(***************************************************************************)
\* records of the position stream: status "" stands for a record without
\* a status key, values reach and pass inventory_max_dollars
PositionRecords ==
    {[symbol |-> symbol, status |-> status, position |-> [value |-> value, side |-> side]] :
        symbol \in Keys, status \in {"", "OPEN", "CLOSED"},
        value \in 1..(inventory_max_dollars + 1), side \in {0 - 1, 1}}
\* batches of position records: one record, or several records of both symbols
PositionBatches ==
    {<<r>> : r \in PositionRecords}
    \cup UNION {[1..n -> {r \in PositionRecords :
                            /\ r.position.value = inventory_max_dollars
                            /\ r.position.side = 1
                            /\ r.status # ""}] : n \in 2..MaxBatch}

\* mutant: a record at or over the inventory limit is dropped after the warning
RECURSIVE update_positions_capped(_, _)
update_positions_capped(ps, data) ==
    IF data = <<>> THEN ps
    ELSE LET pos == Head(data)
             symbol == pos.symbol
             size == pos.position.value
             net_position == size * pos.position.side
         IN  update_positions_capped(
                 IF size >= inventory_max_dollars THEN ps
                 ELSE IF pos.status = "CLOSED"
                 THEN [k \in DOMAIN ps \ {symbol} |-> ps[k]]
                 ELSE [k \in DOMAIN ps \cup {symbol} |->
                         IF k = symbol THEN net_position ELSE ps[k]],
                 Tail(data))

\* PositionManager.update_positions: positions after the loop over data
RECURSIVE update_positions(_, _)
update_positions(ps, data) ==
    IF data = <<>> THEN ps
    ELSE LET pos == Head(data)
             symbol == pos.symbol
             size == pos.position.value
             net_position == size * pos.position.side
         IN  update_positions(
                 IF pos.status = "CLOSED"
                 THEN [k \in DOMAIN ps \ {symbol} |-> ps[k]]
                 ELSE [k \in DOMAIN ps \cup {symbol} |->
                         IF k = symbol THEN net_position ELSE ps[k]],
                 Tail(data))

\* PositionManager.get_position
get_position(ps, symbol) == IF symbol \in DOMAIN ps THEN ps[symbol] ELSE 0

\* update_positions(data) is called
UpdatePositions(data) ==
    /\ positions' = update_positions(positions, data)
    /\ received' = [k \in DOMAIN received \cup {data[i].symbol : i \in 1..Len(data)} |->
                        LET of == {i \in 1..Len(data) : data[i].symbol = k}
                        IN  IF of = {} THEN received[k]
                            ELSE data[CHOOSE i \in of : \A j \in of : j <= i]]
    /\ UNCHANGED <<omsvars, busvars, lob, position, last_requote_time, quoter,
                   requote_log, rounded, checked, estimator, worker>>

\* MarketMaker.__init__, LOBManager.__init__, PositionManager.__init__
MmInit ==
    /\ lob = [mid |-> 0]
    /\ position = 0
    /\ last_requote_time = 0
    /\ quoter = NewQuoter
    /\ requote_log = NoRequote
    /\ worker = NewWorker
    /\ positions = EmptyMap
    /\ received = EmptyMap
    /\ estimator = NoEstimator

\* _skew with the two caps exchanged: the bid skew forced to 1 at the long
\* limit, the ask skew at the short limit
skewCapsSwapped(position_value) ==
    LET bid0 == IF position_value < 0 THEN position_value ELSE 0
        ask0 == IF position_value > 0 THEN 0 - position_value ELSE 0
        bid1 == IF position_value < inventory_max_dollars
                THEN bid0 ELSE inventory_max_dollars
        ask1 == IF position_value > 0 - inventory_max_dollars
                THEN ask0 ELSE inventory_max_dollars
    IN  [bid |-> Abs(bid1), ask |-> Abs(ask1)]

\* SimpleQuoter._skew, both skews as numerators over inventory_max_dollars
skew(position_value) ==
    LET bid0 == IF position_value < 0 THEN position_value ELSE 0
        ask0 == IF position_value > 0 THEN 0 - position_value ELSE 0
        bid1 == IF position_value > 0 - inventory_max_dollars
                THEN bid0 ELSE inventory_max_dollars
        ask1 == IF position_value < inventory_max_dollars
                THEN ask0 ELSE inventory_max_dollars
    IN  [bid |-> Abs(bid1), ask |-> Abs(ask1)]

\* nblinspace(start, end, n)[i], i from 1, as a numerator over Max(n - 1, 1)
nblinspace(start, end, n, i) ==
    IF n = 1 THEN start ELSE start * (n - 1) + (i - 1) * (end - start)

\* SimpleQuoter._prices: the n prices of each quoted side, each as [num, den]
\* with price = num / den; <<>> is the None of the side that is not quoted
prices(mid, bid_skew, ask_skew, vol) ==
    LET n == num_orders \div 2
        im == inventory_max_dollars
        den == 4 * Bps * im * im
        \* base_range / 2 = half / (2 * Bps)
        half == spread_bps * mid + Bps * vol
        best_bid == (2 * Bps * mid - half) * 2 * im * im
        best_ask == (2 * Bps * mid + half) * 2 * im * im
        side(start, end) ==
            [i \in 1..n |-> [num |-> nblinspace(start, end, n, i),
                             den |-> den * Max(n - 1, 1)]]
    IN  IF bid_skew >= im
        THEN [bid |-> side(best_bid, 4 * Bps * mid * im * im - half * im * im * num_orders),
              ask |-> <<>>]
        ELSE IF ask_skew >= im
        THEN [bid |-> <<>>,
              ask |-> side(best_ask, 4 * Bps * mid * im * im + half * im * im * num_orders)]
        ELSE [bid |-> side(best_bid, best_bid - half * (im - bid_skew) * (im + ask_skew)
                                                      * num_orders),
              ask |-> side(best_ask, best_ask + half * (im - ask_skew) * (im + bid_skew)
                                                      * num_orders)]

\* SimpleQuoter._sizes: gross_exposure_dollars * geometric_weights(n, 0.6) / mid,
\* reversed; the weight of power k is 3^k 5^(n-1-k) over the sum of these
sizes(mid) ==
    LET n == num_orders \div 2
        RECURSIVE Pow(_, _)
        Pow(b, e) == IF e = 0 THEN 1 ELSE b * Pow(b, e - 1)
        w(k) == Pow(3, k) * Pow(5, n - 1 - k)
        total == SumOver([k \in 0..(n - 1) |-> w(k)], 0..(n - 1))
    IN  [i \in 1..n |-> [num |-> gross_exposure_dollars * 1000000 * w(n - i),
                         den |-> total * mid]]

\* the gate of generate_quote_v2 made to look at the size of the move
MovedAbs(prev, cur) == Abs(prev - cur) * Bps > epsilon * cur

\* the gate of generate_quote_v2 with >= for >
MovedInclusive(prev, cur) == (prev - cur) * Bps >= epsilon * cur

\* (prev - cur) > (self.epsilon * cur)/10000
Moved(prev, cur) == (prev - cur) * Bps > epsilon * cur

\* mutant: with mid = 0 the sizes are cut to nothing instead of infinite, and
\* the ladder around mid = 0 is returned
generate_quote_v2_sizes_cut(q, mid, position_value, vol, forced_requote) ==
    LET s == skew(position_value)
        emit == \/ Moved(q.last_mid, mid)
                \/ Moved(q.prev_bid_skew, s.bid)
                \/ Moved(q.prev_ask_skew, s.ask)
                \/ forced_requote
        p == prices(mid, s.bid, s.ask, vol)
        orders(side, ps) ==
            [i \in 1..Len(ps) |->
                    Order(side,
                          IF mid = 0 THEN 0
                          ELSE round_step(sizes(mid)[i].num, sizes(mid)[i].den, lot_size),
                          round_step(ps[i].num, ps[i].den, tick_size),
                          "LIMIT", NoCloid, NoOid)]
    IN  [raised |-> FALSE,
         quotes |-> IF emit THEN orders("BUY", p.bid) \o orders("SELL", p.ask)
                    ELSE <<>>,
         quoter |-> [last_mid |-> mid, prev_bid_skew |-> s.bid,
                     prev_ask_skew |-> s.ask, prev_vol |-> vol]]

\* mutant: the comparison baseline is stored only when the call emits
generate_quote_v2_on_emit(q, mid, position_value, vol, forced_requote) ==
    LET s == skew(position_value)
        emit == \/ Moved(q.last_mid, mid)
                \/ Moved(q.prev_bid_skew, s.bid)
                \/ Moved(q.prev_ask_skew, s.ask)
                \/ forced_requote
        p == prices(mid, s.bid, s.ask, vol)
        z == sizes(mid)
        orders(side, ps) ==
            [i \in 1..Len(ps) |->
                    Order(side, round_step(z[i].num, z[i].den, lot_size),
                          round_step(ps[i].num, ps[i].den, tick_size),
                          "LIMIT", NoCloid, NoOid)]
    IN  IF emit /\ mid = 0
        THEN [raised |-> TRUE, quotes |-> <<>>, quoter |-> q]
        ELSE [raised |-> FALSE,
              quotes |-> IF emit THEN orders("BUY", p.bid) \o orders("SELL", p.ask)
                         ELSE <<>>,
              quoter |-> IF emit
                         THEN [last_mid |-> mid, prev_bid_skew |-> s.bid,
                               prev_ask_skew |-> s.ask, prev_vol |-> vol]
                         ELSE q]

\* SimpleQuoter.generate_quote_v2 on quoter state q; vol is the output of
\* self._volatility(mid).  Returns the quotes and the quoter state after the
\* call; with mid = 0 the sizes are infinite and round_step raises before
\* the state is stored.
generate_quote_v2(q, mid, position_value, vol, forced_requote) ==
    LET s == skew(position_value)
        condition1 == Moved(q.last_mid, mid)
        condition2 == FALSE
        condition3 == Moved(q.prev_bid_skew, s.bid)
        condition4 == Moved(q.prev_ask_skew, s.ask)
        emit == condition1 \/ condition2 \/ condition3 \/ condition4 \/ forced_requote
        p == prices(mid, s.bid, s.ask, vol)
        z == sizes(mid)
        orders(side, ps) ==
            [i \in 1..Len(ps) |->
                    Order(side, round_step(z[i].num, z[i].den, lot_size),
                          round_step(ps[i].num, ps[i].den, tick_size),
                          "LIMIT", NoCloid, NoOid)]
    IN  IF emit /\ mid = 0
        THEN [raised |-> TRUE, quotes |-> <<>>, quoter |-> q]
        ELSE [raised |-> FALSE,
              quotes |-> IF emit THEN orders("BUY", p.bid) \o orders("SELL", p.ask)
                         ELSE <<>>,
              quoter |-> [last_mid |-> mid, prev_bid_skew |-> s.bid,
                          prev_ask_skew |-> s.ask, prev_vol |-> vol]]

\* the rate limit of requote with <= for <
RateLimitedInclusive(forced_requote, current_time) ==
    /\ ~forced_requote
    /\ current_time - last_requote_time <= min_requote_interval * 1000

\* requote returns at line 167
RateLimited(forced_requote, current_time) ==
    /\ ~forced_requote
    /\ current_time - last_requote_time < min_requote_interval * 1000

\* MarketMaker.requote with the LOB mid and position its managers return;
\* a non-empty quote list enters OMS.update
requote(forced_requote, mid, pos, vol) ==
    LET current_time == time_ms(now)
        r == generate_quote_v2(quoter, mid, pos, vol, forced_requote)
    IN  IF RateLimited(forced_requote, current_time)
        THEN /\ requote_log' = [NoRequote EXCEPT !.forced = forced_requote,
                                                 !.since = requote_log.since]
             /\ UNCHANGED <<last_requote_time, quoter>>
             /\ UNCHANGED omsvars
        ELSE /\ last_requote_time' = current_time
             /\ quoter' = r.quoter
             /\ requote_log' = [forced |-> forced_requote, executed |-> TRUE,
                                raised |-> r.raised, quotes |-> r.quotes,
                                oms_update |-> r.quotes # <<>>,
                                since |-> IF r.quotes # <<>> THEN mid
                                          ELSE requote_log.since]
             /\ IF r.quotes # <<>>
                THEN UpdateEntry(r.quotes, mid)
                ELSE UNCHANGED omsvars

(***************************************************************************)
(* MarketMaker._on_order_updates -> OMS.update_orders_state(data)          *)
(***************************************************************************)
RejectedLevels(data) ==
    {Tail3(data[k].order.cloid) : k \in {j \in 1..Len(data) : data[j].status \in REJECTED}}

\* mutant: update_orders_state returns whether the batch filled an order
requote_on_filled_returned(s) == s.filled # <<>>

\* what `if requote_on_filled:` sees: update_orders_state, left in state s,
\* has no return statement and gives None, which the if takes as false
requote_on_filled(s) == FALSE

\* the handler: the batch is processed, and requote(forced_requote = False)
\* is awaited if requote_on_filled is true
OrderEvent(data) ==
    LET s == ApplyBatch(OmsState, data)
        g == AnswerBatch(OmsState, [inflight |-> inflight, covered |-> covered], data)
        current_time == time_ms(now)
    IN  /\ pc = "idle"
        /\ s.oc <= MaxCount
        /\ s.filled = <<>> \/ Len(tp_tasks) < MaxTasks
        /\ orders_state' = s.os
        /\ order_keys' = s.ks
        /\ order_count' = s.oc
        /\ pending_levels' = s.pl
        /\ tp_tasks' = IF s.filled # <<>>
                       THEN Append(tp_tasks, [filled |-> s.filled, st |-> "scheduled",
                                              sent |-> <<>>])
                       ELSE tp_tasks
        /\ inflight' = g.inflight
        /\ covered' = g.covered
        /\ rejected' = (rejected \cup RejectedLevels(data)) \cap Levels
        /\ IF ~requote_on_filled(s)
           THEN UNCHANGED <<pc, call, sent, drift, last_requote_time, quoter, requote_log>>
           ELSE IF RateLimited(FALSE, current_time)
           THEN /\ requote_log' = [NoRequote EXCEPT !.since = requote_log.since]
                /\ UNCHANGED <<pc, call, sent, drift, last_requote_time, quoter>>
           ELSE \E vol \in Vols :
                    LET r == generate_quote_v2(quoter, lob.mid, position, vol, FALSE)
                    IN  /\ last_requote_time' = current_time
                        /\ quoter' = r.quoter
                        /\ requote_log' = [forced |-> FALSE, executed |-> TRUE,
                                           raised |-> r.raised, quotes |-> r.quotes,
                                           oms_update |-> r.quotes # <<>>,
                                           since |-> IF r.quotes # <<>> THEN lob.mid
                                                     ELSE requote_log.since]
                        /\ IF r.quotes # <<>>
                           THEN /\ pc' = "loop"
                                /\ call' = [NoCall EXCEPT !.op = "update",
                                                !.new_orders = r.quotes, !.i = 1,
                                                !.mid = lob.mid,
                                                !.pending0 = s.pl, !.t0 = now]
                                /\ sent' = <<>>
                                /\ drift' = FALSE
                           ELSE UNCHANGED <<pc, call, sent, drift>>
        /\ UNCHANGED <<now, lob, position, rounded, checked, partvars, worker, busvars>>

\* MarketMaker._on_orderbook_updates
OrderbookEvent(mid, vol) ==
    /\ pc = "idle"
    /\ lob' = [mid |-> mid]
    /\ requote(FALSE, mid, position, vol)
    /\ UNCHANGED <<position, rounded, checked, partvars, worker, busvars>>

\* MarketMaker._on_position_updates; pos is the net position of the symbol
\* that update_positions leaves
PositionEvent(pos, vol) ==
    /\ pc = "idle"
    /\ position' = pos
    /\ requote(FALSE, lob.mid, pos, vol)
    /\ UNCHANGED <<lob, rounded, checked, partvars, worker, busvars>>

\* MarketMaker.requote called on unchanged managers: _on_usdcusdt_updates
\* calls it unforced, a forced call has no caller in the repository
RequoteCall(forced_requote, vol) ==
    /\ pc = "idle"
    /\ requote(forced_requote, lob.mid, position, vol)
    /\ UNCHANGED <<lob, position, rounded, checked, partvars, worker, busvars>>

\* the clock is read later
ClockAdvance(t) ==
    /\ pc = "idle"
    /\ t > now
    /\ now' = t
    /\ UNCHANGED <<orders_state, order_keys, pending_levels, order_count, tp_tasks, pc,
                   call, sent, inflight, covered, rejected, drift,
                   busvars, mmvars>>

\* one symbol's OMS, quiet market
Next ==
    \/ Tick
    \/ \E data \in QuietBatches : OrderEvent(data)
    \/ \E new_orders \in Ladders, mid \in Mids : UpdateCall(new_orders, mid)
    \/ UpdateLoop
    \/ UpdateAfterLoop
    \/ PlaceMarketsDone
    \/ \E response \in Responses : CancelMktDone(response)
    \/ \E response \in Responses : GatherDone(response)
    \/ \E response \in Responses : CancelExcessDone(response)
    \/ CancelAllCall
    \/ \E response \in Responses : CancelAllDone(response)
    \/ Return

vars == <<omsvars, busvars, mmvars>>
Init ==
    /\ OmsInit /\ BusInit(MainMaxsize) /\ MmInit
    /\ rounded = NoRounding /\ checked = NoCheck
Spec == Init /\ [][Next]_vars

\* one symbol's OMS with fills and the take-profit tasks they start
FillNext ==
    \/ Tick
    \/ \E data \in FillBatches : OrderEvent(data)
    \/ \E k \in 1..MaxTasks : TpStart(k)
    \/ \E k \in 1..MaxTasks, response \in Responses : TpDone(k, response)
    \/ \E new_orders \in FillLadders, mid \in Mids : UpdateCall(new_orders, mid)
    \/ UpdateLoop
    \/ UpdateAfterLoop
    \/ \E response \in Responses : GatherDone(response)
    \/ \E response \in Responses : CancelExcessDone(response)
    \/ Return

FillSpec == Init /\ [][FillNext]_vars

\* one symbol's OMS driven through each of its operations: simple_update,
\* update with and without a market order, cancel_all
SimpleNext ==
    \/ Tick
    \/ \E data \in QuietBatches : OrderEvent(data)
    \/ \E new_orders \in FillLadders : SimpleCall(new_orders)
    \/ \E response \in Responses : SimpleCancelDone(response)
    \/ SimplePlaceDone
    \/ \E new_orders \in FillLadders \cup {<<MarketInput, Limit(L0, 9990)>>},
          mid \in Mids : UpdateCall(new_orders, mid)
    \/ UpdateLoop
    \/ UpdateAfterLoop
    \/ PlaceMarketsDone
    \/ \E response \in Responses : CancelMktDone(response)
    \/ \E response \in Responses : GatherDone(response)
    \/ \E response \in Responses : CancelExcessDone(response)
    \/ CancelAllCall
    \/ \E response \in Responses : CancelAllDone(response)
    \/ Return

SimpleSpec == Init /\ [][SimpleNext]_vars

\* the bus alone: producers, consumers and close, for every queue bound
BusNext ==
    \/ \E p \in Producers, k \in AllKeys : Put(p, k)
    \/ \E p \in Producers : PutResume(p)
    \/ \E k \in AllKeys : Get(k)
    \/ \E k \in Keys : GetResume(k)
    \/ \E k \in Keys : Close(k)

BusStart ==
    /\ OmsInit /\ MmInit /\ rounded = NoRounding /\ checked = NoCheck
    /\ \E size \in MaxSizes : BusInit(size)
BusSpec == BusStart /\ [][BusNext]_vars

\* one symbol worker fed orderbook and position events, its quotes entering
\* OMS.update
QuoteNext ==
    \/ \E t \in ClockReadings : ClockAdvance(t)
    \/ \E mid \in QuoteMids, vol \in Vols : OrderbookEvent(mid, vol)
    \/ \E pos \in Positions, vol \in Vols : PositionEvent(pos, vol)
    \/ \E forced_requote \in BOOLEAN, vol \in Vols : RequoteCall(forced_requote, vol)
    \/ UpdateLoop
    \/ Return

QuoteSpec == Init /\ [][QuoteNext]_vars

\* a worker of a registered or of an unregistered symbol over the bus of
\* main.py, its queue fed by the stream handlers
WorkerNext ==
    \/ \E symbol \in AllKeys : WorkerStart(symbol)
    \/ \E p \in Producers, k \in Keys : Put(p, k)
    \/ WorkerGet
    \/ GetDone
    \/ \E outcome \in {"returned", "raised"} : HandlerDone(outcome)
    \/ SleepDone
    \/ Cancel
    \/ \E k \in Keys : Close(k)

WorkerSpec == Init /\ [][WorkerNext]_vars

\* one symbol's OMS quoting one ladder at its prices, on an exchange that
\* accepts every request and whose account stream announces an order only
\* in answer to a request in flight for its level, at the price asked, and
\* reports the cancellation of live orders
AnsweredNext ==
    \/ Tick
    \/ \E rec \in QuietRecords :
           /\ rec.order.oid # NoOid
           /\ \E new_orders \in FillLadders : \E i \in 1..Len(new_orders) :
                  /\ new_orders[i].cloid = rec.order.cloid
                  /\ new_orders[i].price = rec.order.price
           /\ \/ /\ rec.status = "NEW"
                 /\ rec.order.oid \notin DOMAIN orders_state
                 /\ inflight[rec.order.cloid] > 0
              \/ /\ rec.status = "CANCELLED"
                 /\ rec.order.oid \in DOMAIN orders_state
           /\ OrderEvent(<<rec>>)
    \/ \E new_orders \in FillLadders, mid \in Mids : UpdateCall(new_orders, mid)
    \/ UpdateLoop
    \/ UpdateAfterLoop
    \/ GatherDone("OK")
    \/ \E response \in Responses : CancelExcessDone(response)
    \/ Return

AnsweredSpec == Init /\ [][AnsweredNext]_vars

\* round_step applied to an input and to its own result
RoundStart ==
    /\ OmsInit /\ BusInit(MainMaxsize) /\ MmInit
    /\ rounded \in RoundInputs /\ checked = NoCheck
RoundSpec == RoundStart /\ [][RoundCall]_vars

\* an estimator of floats of 4 or of 30 significant bits fed samples
EstimatorNext ==
    \/ \E prec \in {4, 30} : EstimatorNew(window_size, prec)
    \/ \E x_new \in Samples : EstimatorUpdate(x_new)
EstimatorSpec == Init /\ [][EstimatorNext]_vars

\* the position manager fed batches of position records
PositionSpec == Init /\ [][\E data \in PositionBatches : UpdatePositions(data)]_vars

\* is_out_of_bounds applied to an old order, a new order and a mid
CheckStart ==
    /\ OmsInit /\ BusInit(MainMaxsize) /\ MmInit
    /\ rounded = NoRounding /\ checked \in CheckInputs
CheckSpec == CheckStart /\ [][CheckCall]_vars

(***************************************************************************)
(* Vocabulary of the properties.                                           *)
(***************************************************************************)
InUpdate == call.op = "update"
PlaceOrAmend == {"create_order", "amend_order"}

\* level tag of an order intent; NoCloid for an order without cloid
LevelOf(order) == IF order.cloid = NoCloid THEN NoCloid ELSE Tail3(order.cloid)

\* the LIMIT levels named in the current call
CallLevels ==
    {LevelOf(call.new_orders[k]) :
        k \in {j \in 1..Len(call.new_orders) :
                  call.new_orders[j].order_type = "LIMIT"}} \ {NoCloid}

\* requests of the current call that place or amend level l
RequestsFor(l) ==
    {k \in 1..Len(sent) : sent[k].op \in PlaceOrAmend /\ LevelOf(sent[k].order) = l}

\* level l was pending, and not older than the timeout, when the call began
FreshAtCall(l) ==
    l \in DOMAIN call.pending0 /\ call.t0 - call.pending0[l] <= timeout

\* every order of the call is a LIMIT order of a level that was fresh pending
AllFreshAtCall ==
    \A k \in 1..Len(call.new_orders) :
        /\ call.new_orders[k].order_type = "LIMIT"
        /\ call.new_orders[k].cloid # NoCloid
        /\ FreshAtCall(LevelOf(call.new_orders[k]))

NonTpOids == {oid \in DOMAIN orders_state : Tail3(orders_state[oid].cloid) # TpTag}

(***************************************************************************)
(* C1.  Single flight.                                                     *)
(***************************************************************************)
\* C1 as stated: in every reachable state, for every level tag other than
\* "_tp", at most one place or amend request issued by the OMS is in flight
\* (issued and not yet answered by an order update for the level).
C1_SingleFlight == \A l \in Levels : inflight[l] <= 1

\* C1 as amended: for every level tag other than "_tp", at most one
\* unanswered place or amend request was issued by update under the level's
\* current pending_levels entry; once the entry is removed (order update,
\* timeout, successful cancel_all) a further request may join the old one.
C1_SingleFlightPerEntry == \A l \in Levels : covered[l] <= 1

\* a second update finds the level pending while its request is unanswered
C1_Witness ==
    /\ pc = "after_loop" /\ InUpdate
    /\ \E l \in CallLevels :
          /\ FreshAtCall(l)
          /\ covered[l] = 1
          /\ inflight[l] = 1
          /\ call.limits = <<>> /\ call.amends = <<>>

(***************************************************************************)
(* C2.  A pending level is skipped.                                        *)
(***************************************************************************)
\* C2 as stated: if level L is pending and not older than 10,000 ms when
\* update is called, the call issues no create_order and no amend_order for
\* L and leaves pending_levels[L] unchanged; a call whose levels are all
\* pending issues no exchange call at all.
C2_PendingSkipped ==
    InUpdate =>
        /\ \A l \in Levels :
              FreshAtCall(l) =>
                  /\ RequestsFor(l) = {}
                  /\ l \in DOMAIN pending_levels
                  /\ pending_levels[l] = call.pending0[l]
        /\ AllFreshAtCall => sent = <<>>

\* C2 as amended: the call issues no create_order and no amend_order for L,
\* and leaves pending_levels[L] unchanged as long as it has not run
\* cancel_all (which it does after MARKET orders and when order_count >
\* num_orders); a call whose orders are all LIMIT orders of pending levels
\* issues no exchange call provided order_count <= num_orders.
C2_PendingSkippedUntilCancelAll ==
    InUpdate =>
        /\ \A l \in Levels :
              FreshAtCall(l) =>
                  /\ RequestsFor(l) = {}
                  /\ \A k \in 1..Len(call.limits) : LevelOf(call.limits[k]) # l
                  /\ \A k \in 1..Len(call.amends) : LevelOf(call.amends[k]) # l
                  /\ (\A k \in 1..Len(sent) : sent[k] # CancelAllRequest) =>
                        /\ l \in DOMAIN pending_levels
                        /\ pending_levels[l] = call.pending0[l]
        /\ AllFreshAtCall /\ order_count <= num_orders => sent = <<>>

\* the second call with the same ladder returns without any exchange call;
\* one of its levels was marked exactly 10,000 ms before
C2_Witness ==
    /\ pc = "ret" /\ InUpdate /\ call.result = "returned"
    /\ Len(call.new_orders) = 2
    /\ AllFreshAtCall
    /\ \E l \in CallLevels : call.t0 - call.pending0[l] = timeout
    /\ sent = <<>>

(***************************************************************************)
(* C3.  The synchronous section of update.                                 *)
(***************************************************************************)
\* levels bucketed for placement or amendment by the current call
BucketLevels ==
    {LevelOf(call.limits[k]) : k \in 1..Len(call.limits)}
    \cup {LevelOf(call.amends[k]) : k \in 1..Len(call.amends)}

\* C3: from the entry of update to its first await (the loop that checks,
\* decides and marks each level, and the start of the dispatch) no other
\* task takes a step, and when the first exchange request of the call is
\* issued every level the call places or amends is marked in pending_levels.
C3_SynchronousMarking ==
    [][/\ pc \in {"loop", "after_loop"} => tp_tasks' = tp_tasks /\ now' = now
       /\ (InUpdate /\ sent = <<>> /\ sent' # <<>>) =>
             \A l \in BucketLevels :
                 l \in DOMAIN pending_levels /\ pending_levels[l] = call.t0]_vars

\* the second half of C3 on its own, for Spec, whose calls also carry MARKET
\* orders: there the first request is the market placement of line 269
C3_MarkedBeforeFirstRequest ==
    [][(InUpdate /\ sent = <<>> /\ sent' # <<>>) =>
          \A l \in BucketLevels :
              l \in DOMAIN pending_levels /\ pending_levels[l] = call.t0]_vars

\* the loop is between two orders, the first one marked, while a
\* take-profit task is ready to run
C3_Witness ==
    /\ pc = "loop" /\ call.i = 2
    /\ LevelOf(call.new_orders[1]) \in DOMAIN pending_levels
    /\ LevelOf(call.new_orders[1]) \notin DOMAIN call.pending0
    /\ tp_tasks # <<>>
    /\ tp_tasks[1].st = "scheduled"

(***************************************************************************)
(* C4.  order_count.                                                       *)
(***************************************************************************)
\* C4: after any sequence of order-update batches, order_count is >= 0 and
\* equals the number of entries of orders_state whose cloid does not end
\* in "_tp".
C4_OrderCountTracks ==
    /\ order_count >= 0
    /\ order_count = Cardinality(NonTpOids)

(***************************************************************************)
(* C5.  Replay.                                                            *)
(***************************************************************************)
\* C5: for every status, applying the same order-update record twice in a
\* row leaves orders_state, order_count, pending_levels and the take-profit
\* orders scheduled the same as applying it once.
C5_ReplayIdempotent ==
    \A rec \in Records :
        ApplyBatch(OmsState, <<rec, rec>>).os = ApplyBatch(OmsState, <<rec>>).os
        /\ ApplyBatch(OmsState, <<rec, rec>>).oc = ApplyBatch(OmsState, <<rec>>).oc
        /\ ApplyBatch(OmsState, <<rec, rec>>).pl = ApplyBatch(OmsState, <<rec>>).pl
        /\ ApplyBatch(OmsState, <<rec, rec>>).filled
               = ApplyBatch(OmsState, <<rec>>).filled

(***************************************************************************)
(* C6.  The order-count bound.                                             *)
(***************************************************************************)
\* C6 as stated: order_count stays in [0, num_orders], and whenever it
\* exceeds num_orders, cancel_all_orders is issued before any further
\* create_order or amend_order.
C6_CountBounded ==
    /\ order_count \in 0..num_orders
    /\ (InUpdate /\ order_count > num_orders) =>
          \A k \in 1..Len(sent) :
              sent[k].op \in PlaceOrAmend =>
                  \E j \in 1..(k - 1) : sent[j] = CancelAllRequest

\* C6 as amended: order_count never goes below 0 (an oid always carrying the
\* same cloid) but can exceed num_orders; an update call that gets past its
\* dispatch with order_count > num_orders issues cancel_all_orders as its
\* last exchange request, after the create and amend requests of that call.
C6_ExcessCancelledAfterDispatch ==
    /\ order_count >= 0
    /\ (pc = "ret" /\ InUpdate /\ call.result = "returned" /\ order_count > num_orders) =>
          /\ sent # <<>>
          /\ sent[Len(sent)] = CancelAllRequest

\* an update returns after having placed an order and then cancelled all
C6_Witness ==
    /\ pc = "ret" /\ InUpdate /\ call.result = "returned"
    /\ order_count > num_orders
    /\ Len(sent) = 2
    /\ sent[1].op = "create_order"
    /\ sent[2] = CancelAllRequest

(***************************************************************************)
(* C7.  Fill -> take profit.                                               *)
(***************************************************************************)
\* r is num/den cut down to a multiple of step
IsRoundedDown(r, num, den, step) ==
    /\ r % step = 0
    /\ r * den <= num
    /\ num < (r + step) * den

\* tp is the take-profit order the claim describes for the filled order
IsTakeProfitOf(tp, filled_order) ==
    /\ tp.side = (IF filled_order.side = "BUY" THEN "SELL" ELSE "BUY")
    /\ tp.amount = filled_order.amount
    /\ Tail3(tp.cloid) = TpTag
    /\ IF filled_order.side = "BUY"
       THEN IsRoundedDown(tp.price, filled_order.price * (Bps + tp_distance),
                          Bps, tick_size)
       ELSE IsRoundedDown(tp.price, filled_order.price * (Bps - tp_distance),
                          Bps, tick_size)

\* C7: when update_orders_state processes FILLED for an oid present in
\* orders_state whose level tag is not "_tp", the order is removed, its
\* level is removed from pending_levels, order_count decreases by exactly 1
\* and one take-profit order is scheduled for it; the task submits, through
\* create_order, exactly one order per fill: opposite side, same amount,
\* cloid ending in "_tp", price round_step(p * (1 +/- tp_distance/10000),
\* tick_size), plus for a filled BUY and minus for a filled SELL.
C7_FillPlacesTakeProfit ==
    [][/\ \A rec \in Records :
             (/\ rec.status = "FILLED"
              /\ rec.order.oid \in DOMAIN orders_state
              /\ Tail3(rec.order.cloid) # TpTag
              /\ OrderEvent(<<rec>>)) =>
                 /\ rec.order.oid \notin DOMAIN orders_state'
                 /\ Tail3(rec.order.cloid) \notin DOMAIN pending_levels'
                 /\ order_count' = order_count - 1
                 /\ Len(tp_tasks') = Len(tp_tasks) + 1
                 /\ tp_tasks'[Len(tp_tasks')].filled
                        = <<orders_state[rec.order.oid]>>
       /\ \A k \in 1..Len(tp_tasks) :
             TpStart(k) =>
                 /\ Len(tp_tasks'[k].sent) = Len(tp_tasks[k].filled)
                 /\ \A j \in 1..Len(tp_tasks[k].filled) :
                       /\ tp_tasks'[k].sent[j].op = "create_order"
                       /\ IsTakeProfitOf(tp_tasks'[k].sent[j].order,
                                         tp_tasks[k].filled[j])]_vars

\* the live BUY order o1 at 99.90 was filled: it is gone, its level is not
\* pending, and its take-profit SELL at 100.80 has been submitted
C7_Witness ==
    /\ O1 \notin DOMAIN orders_state
    /\ L0 \notin DOMAIN pending_levels
    /\ inflight[L0] = 0
    /\ Len(tp_tasks) = 1
    /\ tp_tasks[1].st = "awaiting"
    /\ tp_tasks[1].filled = <<Record("FILLED", O1, 9990).order>>
    /\ Len(tp_tasks[1].sent) = 1
    /\ tp_tasks[1].sent[1].order.side = "SELL"
    /\ tp_tasks[1].sent[1].order.price = 10080
    /\ tp_tasks[1].sent[1].order.cloid = L0 \o TpTag

(***************************************************************************)
(* C8.  Rejected placement.                                                *)
(***************************************************************************)
\* C8: processing a REJECTED update with level tag L removes L from
\* pending_levels and leaves orders_state and order_count unchanged; the
\* next update that contains an order for L, with no live order on L,
\* issues a create_order for L.
C8_RejectedThenReplaced ==
    /\ \A rec \in Records :
          rec.status = "REJECTED" =>
              ApplyRecord(OmsState, rec) =
                  [OmsState EXCEPT !.pl = RemovePending(@, Tail3(rec.order.cloid))]
    /\ \A l \in rejected : l \notin DOMAIN pending_levels \/ pc # "idle"
    /\ (pc = "ret" /\ InUpdate) =>
          \A l \in rejected \cap CallLevels :
              (\A oid \in DOMAIN orders_state : Tail3(orders_state[oid].cloid) # l)
                  => \E k \in RequestsFor(l) : sent[k].op = "create_order"

(***************************************************************************)
(* C9.  Pending freshness.                                                 *)
(***************************************************************************)
\* C9 as stated: after any OMS operation completes, pending_levels contains
\* no entry whose timestamp is more than 10,000 ms in the past.
C9_PendingFresh ==
    (pc = "ret" /\ call.result = "returned") => \A l \in DOMAIN pending_levels : now - pending_levels[l] <= timeout

\* C9 as amended: stale entries are removed lazily, per level and only by
\* update: once the loop of update has examined the LIMIT orders of a call,
\* the entry of each level named in the call is at most 10,000 ms old;
\* entries of other levels, and entries after update_orders_state or
\* cancel_all, can be older.
C9_FreshAfterLookup ==
    (pc = "after_loop" /\ InUpdate) =>
        \A l \in CallLevels \cap DOMAIN pending_levels :
            now - pending_levels[l] <= timeout

\* a stale entry of a level named in the call was dropped and the level
\* marked again, while the stale entry of the other level stays
C9_Witness ==
    /\ pc = "after_loop" /\ InUpdate
    /\ \E l \in CallLevels :
          /\ l \in DOMAIN call.pending0
          /\ call.t0 - call.pending0[l] > timeout
          /\ l \in DOMAIN pending_levels
          /\ pending_levels[l] = now
    /\ \E l \in DOMAIN pending_levels : now - pending_levels[l] > timeout

(***************************************************************************)
(* C10: for each stream key, with any number of concurrent producers and a *)
(* bounded queue, the events returned by successive get calls have         *)
(* strictly increasing seq_id.  A producer takes its seq_id before it       *)
(* suspends in a full queue; when a get wakes it, another producer that    *)
(* runs first takes the freed slot with a later seq_id, and the woken      *)
(* producer waits again behind it.                                         *)
(***************************************************************************)
Increasing(events) ==
    \A i, j \in 1..Len(events) : i < j => events[i].seq_id < events[j].seq_id

\* C10: with a bounded queue, every key's successive gets return strictly
\* increasing seq_ids
C10_GetsIncreasing == maxsize > 0 => \A k \in Keys : Increasing(got[k])

\* the same with the unbounded queue main.py builds: holds
C10_GetsIncreasingUnbounded == maxsize = 0 => \A k \in Keys : Increasing(got[k])

(***************************************************************************)
(* Failing puts and the capacity of a bounded queue                        *)
(***************************************************************************)
\* the sequence numbers of key k that are queued, delivered or carried by a
\* put suspended in Queue.put
SeqIdsOf(k) ==
    LET SeqIds(events) == {events[i].seq_id : i \in 1..Len(events)}
        Suspended == {p \in Producers : prod[p].st \in {"waiting", "woken"}
                                          /\ prod[p].key = k}
    IN  SeqIds(queue[k]) \cup SeqIds(got[k])
            \cup {prod[p].evt.seq_id : p \in Suspended}

\* C11: a put on an unregistered key raises UnknownStreamKeyError and a put
\* on a closed queue raises RuntimeError; either leaves the queues, the
\* sequence counters and the delivered events as they were, and every other
\* put takes the number after the key's last one, so that the numbers issued
\* on a key are always 1..last_id without a gap
C11_FailedPutConsumesNothing ==
    [][\A p \in Producers, k \in AllKeys :
          LET PutSeqId == IF prod'[p].st = "idle" THEN prod'[p].result.seq_id
                          ELSE prod'[p].evt.seq_id
          IN
          Put(p, k) =>
              /\ IF k \notin Keys
                 THEN /\ prod'[p] = Idle(Raised("UnknownStreamKeyError"))
                      /\ UNCHANGED <<queue, last_id, putters, got>>
                 ELSE IF closed[k]
                 THEN /\ prod'[p] = Idle(Raised("RuntimeError"))
                      /\ UNCHANGED <<queue, last_id, putters, got>>
                 ELSE /\ PutSeqId = last_id[k] + 1
                      /\ last_id'[k] = last_id[k] + 1
              /\ \A key \in Keys : SeqIdsOf(key)' = 1..last_id'[key]
      ]_vars

\* a put failed on a closed queue that had accepted events, and another on an
\* unregistered key
C11_Witness ==
    \E p, q \in Producers, k \in Keys :
        /\ closed[k]
        /\ last_id[k] >= 1
        /\ prod[p] = Idle(Raised("RuntimeError"))
        /\ prod[q] = Idle(Raised("UnknownStreamKeyError"))

\* C12: with maxsize > 0 a queue never holds more than maxsize events; a
\* suspended put completes only by enqueueing its own event into a queue
\* that is not full, after a get has woken it; and every accepted event is
\* queued, delivered or carried by a suspended put exactly once
C12_BoundedExactlyOnce ==
    [][/\ \A k \in Keys :
            LET Suspended == {p \in Producers :
                                 /\ prod'[p].st \in {"waiting", "woken"}
                                 /\ prod'[p].key = k}
            IN  /\ maxsize > 0 => Len(queue'[k]) <= maxsize
                /\ SeqIdsOf(k)' = 1..last_id'[k]
                /\ Len(queue'[k]) + Len(got'[k]) + Cardinality(Suspended)
                       = last_id'[k]
       /\ \A p \in Producers :
            /\ prod'[p].st = "waiting" /\ prod[p].st = "idle"
                   => Len(queue[prod'[p].key]) = maxsize
            /\ prod[p].st = "waiting" /\ prod'[p].st # "waiting"
                   => /\ prod'[p].st = "woken"
                      /\ Len(queue'[prod[p].key]) < Len(queue[prod[p].key])
            /\ prod[p].st = "woken" /\ prod'[p].st = "idle"
                   => /\ Len(queue[prod[p].key]) < maxsize
                      /\ queue'[prod[p].key]
                             = Append(queue[prod[p].key], prod[p].evt)
                      /\ prod'[p].result = Returned(prod[p].evt.seq_id)
      ]_vars

\* a put that was suspended on a full queue has been woken by a get and finds
\* a free slot
C12_Witness ==
    \E p \in Producers :
        /\ prod[p].st = "woken"
        /\ maxsize > 0
        /\ Len(queue[prod[p].key]) < maxsize
        /\ got[prod[p].key] # <<>>

(***************************************************************************)
(* The quoting path                                                        *)
(***************************************************************************)
\* C13: on a cold start (fresh quoter, position 0) the first orderbook event
\* with mid > 0 makes requote produce num_orders orders, num_orders/2 BUYs
\* followed by num_orders/2 SELLs, and hands them to OMS.update
C13_ColdStartFullLadder ==
    [][\A mid \in QuoteMids, vol \in Vols :
          /\ quoter = NewQuoter /\ position = 0 /\ last_requote_time = 0
          /\ OrderbookEvent(mid, vol)
          => LET quotes == requote_log'.quotes
                 half == num_orders \div 2
             IN  /\ Len(quotes) = num_orders
                 /\ \A i \in 1..Len(quotes) :
                        quotes[i].side = IF i <= half THEN "BUY" ELSE "SELL"
                 /\ requote_log'.oms_update
                 /\ call'.op = "update" /\ call'.new_orders = quotes
      ]_vars

C15_SecondCallEmpty ==
    \A mid \in QuoteMids, pos \in Positions, vol1 \in Vols, vol2 \in Vols,
       forced_requote \in BOOLEAN :
        LET first == generate_quote_v2(quoter, mid, pos, vol1, forced_requote)
        IN  generate_quote_v2(first.quoter, mid, pos, vol2, FALSE).quotes = <<>>

\* a quoter state that is not the fresh one, from which an unforced first
\* call emits
C15_Witness ==
    /\ quoter # NewQuoter
    /\ \E mid \in QuoteMids, pos \in Positions, vol \in Vols :
           generate_quote_v2(quoter, mid, pos, vol, FALSE).quotes # <<>>

C17_QuotesCarryLevelTags ==
    LET quotes == requote_log.quotes
    IN  requote_log.oms_update =>
            /\ \A i \in 1..Len(quotes) :
                   /\ quotes[i].cloid # NoCloid
                   /\ Tail3(quotes[i].cloid) \in Levels
                   /\ Tail3(quotes[i].cloid) # TpTag
            /\ \A i, j \in 1..Len(quotes) :
                   i # j => Tail3(quotes[i].cloid) # Tail3(quotes[j].cloid)

C21_RaisingHandlerKeepsWorker ==
    worker.symbol \in Keys =>
        LET log == worker.log
            taken == got[worker.symbol]
            handled == SelectSeq(log, LAMBDA e : e.outcome \in {"returned", "raised"})
        IN  /\ worker.st = "exited"
                  => log # <<>> /\ log[Len(log)].outcome = "cancelled"
            /\ Len(handled) <= Len(taken)
            /\ Len(taken) <= Len(handled) + 1
            /\ \A j \in 1..Len(handled) : handled[j].seq_id = taken[j].seq_id
            /\ \A j \in 1..(Len(log) - 1) :
                   log[j].outcome = "raised" /\ log[j + 1].outcome # "cancelled"
                       => log[j + 1].t >= log[j].t + sleep_ms

\* the handler of an event raised and the handler of the next event returned
C21_Witness ==
    \E j \in 1..(Len(worker.log) - 1) :
        /\ worker.log[j].outcome = "raised"
        /\ worker.log[j + 1].outcome = "returned"
        /\ worker.log[j + 1].seq_id = worker.log[j].seq_id + 1

\* C22: a worker whose queue has been closed, or whose stream key the bus
\* does not know, leaves its loop: it is never left suspended in get on a
\* closed and empty queue, where no put can wake it, and it does not call
\* get again after get has raised UnknownStreamKeyError.
C22_WorkerExitsWithoutQueue ==
    IF worker.symbol \in Keys
    THEN ~(/\ closed[worker.symbol]
           /\ Empty(worker.symbol)
           /\ worker.st = "get"
           /\ cons[worker.symbol].st = "waiting")
    ELSE Len(SelectSeq(worker.log,
                       LAMBDA e : e.outcome = "UnknownStreamKeyError")) <= 1

(***************************************************************************)
(* Failed requests                                                         *)
(***************************************************************************)
\* what the end of a gather and the end of a take-profit task leave alone,
\* whatever the exchange answered: update goes on to the order_count check
\* and returns, the task ends, neither issues a create_order or amend_order
\* again, and orders_state, order_count and pending_levels keep their values
C23_FailureIsSwallowed ==
    /\ pc = "gather" /\ pc' # "gather"
          => /\ pc' \in {"ret", "cancel_excess"}
             /\ pc' = "ret" => call'.result = "returned"
             /\ sent' \in {sent, Append(sent, CancelAllRequest)}
             /\ UNCHANGED <<orders_state, order_keys, order_count, pending_levels>>
    /\ call.gathered \in {"ERROR", "RAISE"}
          => \A j \in (Len(sent) + 1)..Len(sent') : sent'[j].op \notin PlaceOrAmend
    /\ Len(tp_tasks') < Len(tp_tasks)
          => UNCHANGED <<orders_state, order_keys, order_count, pending_levels,
                         pc, call, sent>>

\* C23 as stated: when create_order or amend_order fails, update and the
\* take-profit task complete normally without issuing the request again,
\* orders_state and order_count are unchanged, and the level of the failed
\* request leaves pending_levels only by an order update or by the cleanup
\* of an entry older than 10,000 ms.
C23_FailedRequestStaysPending ==
    [][/\ C23_FailureIsSwallowed
       /\ \A l \in Levels :
             /\ call.gathered \in {"ERROR", "RAISE"}
             /\ \E k \in 1..Len(call.limits \o call.amends) :
                    LevelOf((call.limits \o call.amends)[k]) = l
             /\ l \in DOMAIN pending_levels
             /\ l \notin DOMAIN pending_levels'
             => \/ \E data \in FillBatches : OrderEvent(data)
                \/ pc = "loop" /\ now - pending_levels[l] > timeout]_vars

\* C23 as amended: the same, and a level leaves pending_levels only by an
\* order update, by the cleanup of an entry older than 10,000 ms, or by a
\* cancel_all that the exchange did not answer with an ERROR record.
C23_FailedRequestStaysPendingUntilCancelAll ==
    [][/\ C23_FailureIsSwallowed
       /\ \A l \in Levels :
             /\ l \in DOMAIN pending_levels
             /\ l \notin DOMAIN pending_levels'
             => \/ \E data \in FillBatches : OrderEvent(data)
                \/ pc = "loop" /\ now - pending_levels[l] > timeout
                \/ pc \in {"cancel_excess", "cancel_mkt", "cancel_all", "su_cancel"}]_vars

\* update has returned after the exchange failed its placements; their
\* levels are pending
C23_Witness ==
    /\ pc = "ret" /\ InUpdate /\ call.result = "returned"
    /\ call.gathered \in {"ERROR", "RAISE"}
    /\ call.limits # <<>>
    /\ \A k \in 1..Len(call.limits) : LevelOf(call.limits[k]) \in DOMAIN pending_levels

(***************************************************************************)
(* An empty orderbook                                                      *)
(***************************************************************************)
\* C24: while the LOB has mid = 0, the last requote has produced no orders
\* and has not entered OMS.update, so that no exchange call is issued,
\* whatever the quoter held before: the gate is closed and the list is
\* empty, or the gate is open and rounding the infinite sizes raises.
C24_ZeroMidQuotesNothing ==
    lob.mid = 0 =>
        /\ requote_log.quotes = <<>>
        /\ ~requote_log.oms_update
        /\ pc = "idle"
        /\ call = NoCall
        /\ sent = <<>>

\* an orderbook event with mid = 0 after one with mid > 0: the gate was open
C24_Witness ==
    /\ lob.mid = 0
    /\ requote_log.executed
    /\ requote_log.raised
    /\ quoter.last_mid > 0

(***************************************************************************)
(* The decision of update for one LIMIT order                              *)
(***************************************************************************)
\* C25: for a LIMIT order whose level L has no entry in pending_levels, the
\* loop of update does exactly one of three things: (a) no live order
\* carries tag L: L is marked pending and the order joins the placements;
\* (b) the first live order with tag L is more than a tenth of its distance
\* from mid away from the new price: L is marked pending and the order, its
\* oid set to that order's cloid, joins the amendments; (c) it is not: no
\* bucket and no entry of pending_levels changes.  The gather of the call
\* issues one create_order per placement and one amend_order per amendment.
C25_ThreeWayDecision ==
    [][/\ pc = "loop"
          => LET order == call.new_orders[call.i]
                 L == LevelOf(order)
                 tagged == {j \in 1..Len(order_keys) :
                               Tail3(orders_state[order_keys[j]].cloid) = L}
                 old == orders_state[order_keys[CHOOSE j \in tagged :
                                                   \A m \in tagged : j <= m]]
                 far == SensitivityInv * Abs(order.price - old.price)
                            > Abs(old.price - call.mid)
                 marked == pending_levels' = AddPending(pending_levels, L, now)
             IN  /\ order.order_type = "LIMIT"
                 /\ order.cloid # NoCloid
                 /\ L \notin DOMAIN pending_levels
                 => IF tagged = {}
                    THEN /\ marked
                         /\ call'.limits = Append(call.limits, order)
                         /\ call'.amends = call.amends
                    ELSE IF far
                    THEN /\ marked
                         /\ call'.amends = Append(call.amends,
                                                  [order EXCEPT !.oid = old.cloid])
                         /\ call'.limits = call.limits
                    ELSE /\ pending_levels' = pending_levels
                         /\ call'.limits = call.limits
                         /\ call'.amends = call.amends
       /\ pc # "gather" /\ pc' = "gather"
          => \E head \in {sent, sent \o <<CancelAllRequest>>} :
                 sent' = head \o Requests("create_order", call.limits)
                              \o Requests("amend_order", call.amends)]_vars

\* one call has placed one level and amended the order of the other
C25_Witness ==
    /\ pc = "gather"
    /\ Len(call.limits) = 1
    /\ Len(call.amends) = 1
    /\ call.amends[1].oid \in {L0, L1}

\* C26 as stated: is_out_of_bounds(old, new, mid) is true exactly when
\* |new.price - old.price| > 0.1 * |old.price - mid|, for every float
C26_ExactBufferAnyFloat ==
    checked.st = "done" /\ checked.old # NoOrder
        => (checked.out <=> SensitivityInv * Abs(checked.new.price - checked.old.price)
                                > Abs(checked.old.price - checked.mid))

\* C26: is_out_of_bounds(old, new, mid) is true exactly when |new.price -
\* old.price| > 0.1 * |old.price - mid| where old.price + buffer and
\* old.price - buffer are floats themselves, so that a price on the edge is
\* in bounds, and for any float when the two sides differ by more than an
\* ulp; an old order at mid makes every price change out of bounds and no
\* other; an absent old order gives false
C26_BufferUpToRounding ==
    checked.st = "done" =>
        LET old == checked.old
            moved == SensitivityInv * Abs(checked.new.price - old.price)
            distance == Abs(old.price - checked.mid)
            grid == SensitivityInv * checked.ulp
        IN  /\ old = NoOrder => ~checked.out
            /\ old # NoOrder =>
                /\ (SensitivityInv * old.price + distance) % grid = 0
                   /\ (SensitivityInv * old.price - distance) % grid = 0
                       => (checked.out <=> moved > distance)
                /\ moved > distance + grid => checked.out
                /\ moved + grid <= distance => ~checked.out
                /\ old.price = checked.mid
                       => (checked.out <=> checked.new.price # old.price)

\* between 2^49 and 2^50 a new price exactly on the edge of the buffer of an
\* old order away from mid has been found in bounds
C26_Witness ==
    /\ checked.st = "done"
    /\ checked.ulp > 1
    /\ checked.old # NoOrder
    /\ checked.old.price # checked.mid
    /\ SensitivityInv * Abs(checked.new.price - checked.old.price)
           = Abs(checked.old.price - checked.mid)
    /\ ~checked.out

\* C27 as stated: in an update with MARKET orders the market orders are
\* placed first, then cancel_all is called, and the LIMIT placements and
\* amendments are issued when cancel_all has completed, their levels being
\* in pending_levels at that moment
C27_LimitsIssuedPending ==
    [][call.op = "update" /\ call.markets # <<>> /\ Len(sent') > Len(sent) =>
          /\ pc \in {"after_loop", "place_markets", "cancel_mkt", "gather"}
          /\ pc = "after_loop" => sent' = sent \o Requests("create_order", call.markets)
          /\ pc = "place_markets" => sent' = Append(sent, CancelAllRequest)
          /\ pc = "cancel_mkt" =>
                /\ sent' = sent \o Requests("create_order", call.limits)
                                \o Requests("amend_order", call.amends)
                /\ \A k \in 1..Len(call.limits \o call.amends) :
                       Tail3((call.limits \o call.amends)[k].cloid)
                           \in DOMAIN pending_levels'
          /\ pc = "gather" => sent' = Append(sent, CancelAllRequest)]_vars

\* C28: cancel_all, wherever it is called from, leaves pending_levels empty
\* when cancel_all_orders answers with anything but an ERROR record and
\* leaves it exactly as it was when the answer is an ERROR record; a
\* cancel_all_orders that raises gives no answer and leaves it as it was too
C28_CancelAllClearsUnlessError ==
    [][\A response \in Responses :
          \/ CancelAllDone(response)
          \/ CancelMktDone(response)
          \/ CancelExcessDone(response)
          => /\ response = "OK" => pending_levels' = EmptyMap
             /\ response = "ERROR" => pending_levels' = pending_levels
             /\ response = "RAISE" => pending_levels' = pending_levels
             /\ pending_levels' \in {pending_levels, EmptyMap}]_vars

\* a cancel_all answered with an ERROR record has returned with the pending
\* levels it started with
C28_Witness ==
    /\ pc = "ret"
    /\ call.op = "cancel_all"
    /\ call.result = "returned"
    /\ pending_levels # EmptyMap
    /\ pending_levels = call.pending0

\* C29 as stated: an update for a level marked pending more than 10,000 ms
\* ago removes the stale entry and issues a new request for the level in the
\* same call; one made at or before 10,000 ms skips the level
C29_StaleLevelRequestedAgain ==
    [][pc = "loop"
          => LET order == call.new_orders[call.i]
                 L == LevelOf(order)
             IN  /\ order.order_type = "LIMIT"
                 /\ order.cloid # NoCloid
                 /\ L \in DOMAIN pending_levels
                 => IF now - pending_levels[L] > timeout
                    THEN /\ pending_levels' = AddPending(pending_levels, L, now)
                         /\ Len(call'.limits \o call'.amends)
                                = Len(call.limits \o call.amends) + 1
                    ELSE /\ pending_levels' = pending_levels
                         /\ call'.limits = call.limits
                         /\ call'.amends = call.amends]_vars

\* C29: an update for a level marked pending more than 10,000 ms ago removes
\* the stale entry and decides the level afresh in the same call: with no
\* live order of the level it marks the level and queues a placement, with
\* one out of bounds it marks the level and queues an amendment, with one in
\* bounds it queues nothing and leaves the level unmarked; an update made at
\* or before 10,000 ms skips the level and leaves its entry as it is
C29_StaleLevelDecidedAfresh ==
    [][pc = "loop"
          => LET order == call.new_orders[call.i]
                 L == LevelOf(order)
                 tagged == {j \in 1..Len(order_keys) :
                               Tail3(orders_state[order_keys[j]].cloid) = L}
                 old == orders_state[order_keys[CHOOSE j \in tagged :
                                                   \A m \in tagged : j <= m]]
                 far == SensitivityInv * Abs(order.price - old.price)
                            > Abs(old.price - call.mid)
             IN  /\ order.order_type = "LIMIT"
                 /\ order.cloid # NoCloid
                 /\ L \in DOMAIN pending_levels
                 => IF now - pending_levels[L] <= timeout
                    THEN /\ pending_levels' = pending_levels
                         /\ call'.limits = call.limits
                         /\ call'.amends = call.amends
                    ELSE IF tagged = {}
                    THEN /\ pending_levels' = AddPending(pending_levels, L, now)
                         /\ call'.limits = Append(call.limits, order)
                         /\ call'.amends = call.amends
                    ELSE IF far
                    THEN /\ pending_levels' = AddPending(pending_levels, L, now)
                         /\ call'.amends = Append(call.amends,
                                                  [order EXCEPT !.oid = old.cloid])
                         /\ call'.limits = call.limits
                    ELSE /\ pending_levels' = RemovePending(pending_levels, L)
                         /\ call'.limits = call.limits
                         /\ call'.amends = call.amends]_vars

\* an update has found the entry of a level older than 10,000 ms, has marked
\* the level again and has sent the placement
C29_Witness ==
    /\ pc = "gather"
    /\ call.op = "update"
    /\ \E L \in DOMAIN call.pending0 \cap DOMAIN pending_levels :
          /\ call.t0 - call.pending0[L] > timeout
          /\ pending_levels[L] = call.t0
          /\ \E k \in 1..Len(sent) :
                sent[k].op = "create_order" /\ LevelOf(sent[k].order) = L

\* C30: an order update batch made of NEW, PARTIALLY_FILLED, FILLED or
\* CANCELLED records of take-profit orders (cloid ending in "_tp") leaves
\* order_count and pending_levels as they were, schedules no take-profit
\* task, and changes orders_state at the records' oids only: an overwriting
\* record puts its order there, a removing record takes the oid out
C30_TakeProfitUpdatesTouchOrdersOnly ==
    [][\A data \in FillBatches :
          /\ \A i \in 1..Len(data) :
                /\ Tail3(data[i].order.cloid) = TpTag
                /\ data[i].status \in OVERWRITE \cup REMOVE
          /\ OrderEvent(data)
          => LET last == data[Len(data)]
                 oids == {data[i].order.oid : i \in 1..Len(data)}
             IN  /\ order_count' = order_count
                 /\ pending_levels' = pending_levels
                 /\ tp_tasks' = tp_tasks
                 /\ DOMAIN orders_state' \ oids = DOMAIN orders_state \ oids
                 /\ \A o \in DOMAIN orders_state \ oids :
                        orders_state'[o] = orders_state[o]
                 /\ last.status \in OVERWRITE
                        => /\ last.order.oid \in DOMAIN orders_state'
                           /\ orders_state'[last.order.oid] = last.order
                 /\ last.status \in REMOVE
                        => last.order.oid \notin DOMAIN orders_state']_vars

\* a take-profit order is live next to a pending level and a parent order
\* while order_count counts the parent only
C30_Witness ==
    /\ O4 \in DOMAIN orders_state
    /\ Tail3(orders_state[O4].cloid) = TpTag
    /\ pending_levels # EmptyMap
    /\ order_count = 1
    /\ Cardinality(DOMAIN orders_state) = 2

\* C31: after any sequence of update_positions calls get_position(symbol) is
\* value * side of the last record received for the symbol when that record
\* is not CLOSED, and 0 when it is CLOSED or no record of the symbol was
\* received, whatever the records of the other symbol and whatever the size
C31_PositionIsLastRecord ==
    \A symbol \in AllKeys :
        get_position(positions, symbol)
            = IF symbol \notin DOMAIN received THEN 0
              ELSE IF received[symbol].status = "CLOSED" THEN 0
              ELSE received[symbol].position.value * received[symbol].position.side

\* one symbol was closed after it had a position, the other is short over the
\* inventory limit
C31_Witness ==
    /\ DOMAIN received = Keys
    /\ received["BTCUSDT"].status = "CLOSED"
    /\ get_position(positions, "BTCUSDT") = 0
    /\ received["ETHUSDT"].status = ""
    /\ received["ETHUSDT"].position.value > inventory_max_dollars
    /\ get_position(positions, "ETHUSDT") < 0 - inventory_max_dollars

\* C32: after a cancel_all triggered by order_count > num_orders, once a
\* CANCELLED update has been delivered for every order of orders_state,
\* orders_state is empty and order_count is 0
C32_DriftIsRecovered ==
    drift /\ pc = "idle" /\ orders_state = EmptyMap => order_count = 0

\* C33 as stated: after any sequence of updates count never exceeds N, sum
\* is the sum and sum_sq the sum of squares of the last min(count, N)
\* samples, and once the window is full the sample subtracted by an update is
\* the oldest one of the window
C33_WindowSumsAnyFloat ==
    estimator.n > 0 =>
        LET e == estimator
            len == Len(e.seen)
            first == len - Min(e.count, e.n)
            total[i \in first..len] == IF i = first THEN 0 ELSE total[i - 1] + e.seen[i]
            squares[i \in first..len] ==
                IF i = first THEN 0 ELSE squares[i - 1] + e.seen[i] * e.seen[i]
        IN  /\ e.count <= e.n
            /\ e.sum = total[len]
            /\ e.sum_sq = squares[len]
            /\ len > e.n => e.x_old = e.seen[len - e.n]

\* C33: after any sequence of updates count is the number of samples seen
\* and at most N, the buffer holds the last N samples, and once the window
\* is full the sample subtracted by an update is the oldest one of the
\* window; sum is the sum and sum_sq the sum of squares of the last
\* min(count, N) samples when no partial result is rounded, that is when
\* twice the largest sum of squares has less than prec bits
C33_WindowSumsUnlessRounded ==
    estimator.n > 0 =>
        LET e == estimator
            len == Len(e.seen)
            first == len - Min(e.count, e.n)
            total[i \in first..len] == IF i = first THEN 0 ELSE total[i - 1] + e.seen[i]
            squares[i \in first..len] ==
                IF i = first THEN 0 ELSE squares[i - 1] + e.seen[i] * e.seen[i]
            largest == CHOOSE x \in Samples : \A y \in Samples : y <= x
        IN  /\ e.count = Min(len, e.n)
            /\ \A i \in 1..e.n :
                   e.buffer[i] = IF len - e.n + i >= 1 THEN e.seen[len - e.n + i] ELSE 0
            /\ e.x_old = IF len > e.n THEN e.seen[len - e.n] ELSE 0
            /\ 2 * e.n * largest * largest < 2 ^ e.prec
                   => e.sum = total[len] /\ e.sum_sq = squares[len]

\* the window has been full for two updates and has slid over samples of
\* different sizes, with nothing rounded
C33_Witness ==
    /\ estimator.n > 0
    /\ estimator.prec > 4
    /\ Len(estimator.seen) >= estimator.n + 2
    /\ estimator.count = estimator.n
    /\ estimator.x_old # 0
    /\ estimator.sum = 17

\* C34 as stated: every call of generate_quote_v2 (that returns) stores the current mid and
\* skews as the baseline of the next comparison, and a call that is not
\* forced and whose mid has not fallen by more than epsilon since the
\* previous call emits nothing
C34_SmallMidStepsNeverEmit ==
    [][LET Requoted ==
               \/ \E mid \in QuoteMids, vol \in Vols : OrderbookEvent(mid, vol)
               \/ \E pos \in Positions, vol \in Vols : PositionEvent(pos, vol)
               \/ \E forced_requote \in BOOLEAN, vol \in Vols :
                      RequoteCall(forced_requote, vol)
           s == skew(position')
       IN  Requoted /\ requote_log'.executed /\ ~requote_log'.raised
           => /\ quoter'.last_mid = lob'.mid
              /\ quoter'.prev_bid_skew = s.bid
              /\ quoter'.prev_ask_skew = s.ask
              /\ ~requote_log'.forced /\ ~Moved(quoter.last_mid, lob'.mid)
                     => requote_log'.quotes = <<>>
      ]_vars

\* C34: every call of generate_quote_v2 that returns stores the current mid
\* and skews as the baseline of the next comparison, also when it emits
\* nothing (a call that raises stores nothing); a call that is not forced
\* and in which neither mid nor a skew has fallen by more than epsilon since
\* the previous call that returned emits nothing, whatever the mid was when
\* quotes were last emitted
C34_SmallStepsNeverEmit ==
    [][LET Requoted ==
               \/ \E mid \in QuoteMids, vol \in Vols : OrderbookEvent(mid, vol)
               \/ \E pos \in Positions, vol \in Vols : PositionEvent(pos, vol)
               \/ \E forced_requote \in BOOLEAN, vol \in Vols :
                      RequoteCall(forced_requote, vol)
           s == skew(position')
       IN  /\ Requoted /\ requote_log'.executed /\ ~requote_log'.raised
               => /\ quoter'.last_mid = lob'.mid
                  /\ quoter'.prev_bid_skew = s.bid
                  /\ quoter'.prev_ask_skew = s.ask
                  /\ /\ ~requote_log'.forced
                     /\ ~Moved(quoter.last_mid, lob'.mid)
                     /\ ~Moved(quoter.prev_bid_skew, s.bid)
                     /\ ~Moved(quoter.prev_ask_skew, s.ask)
                     => requote_log'.quotes = <<>>
           /\ Requoted /\ requote_log'.raised => quoter' = quoter
      ]_vars

\* an unforced call has emitted nothing and stored its mid, although mid has
\* fallen by more than epsilon since quotes were last emitted
C34_Witness ==
    /\ requote_log.executed
    /\ ~requote_log.forced
    /\ ~requote_log.raised
    /\ requote_log.quotes = <<>>
    /\ lob.mid > 0
    /\ quoter.last_mid = lob.mid
    /\ Moved(requote_log.since, lob.mid)

\* C35: OMS.update sends no cancel_order and no bulk_cancel_order request,
\* and every request it sends other than cancel_all_orders carries the level
\* of an order of the new quote list, so a live order whose level is absent
\* from the list is left alone; an order leaves orders_state only when an
\* order update reports that oid FILLED or CANCELLED
C35_AbsentLevelsAreNotCancelled ==
    [][/\ call'.op = "update" =>
              \A i \in 1..Len(sent') :
                  /\ sent'[i].op \notin {"cancel_order", "bulk_cancel_order"}
                  /\ \/ sent'[i].op = "cancel_all_orders"
                     \/ \E j \in 1..Len(call'.new_orders) :
                            call'.new_orders[j].cloid = sent'[i].order.cloid
       /\ \A oid \in DOMAIN orders_state :
              oid \notin DOMAIN orders_state' =>
                  \E data \in QuietBatches :
                      /\ OrderEvent(data)
                      /\ \E k \in 1..Len(data) : /\ data[k].order.oid = oid
                                                 /\ data[k].status \in REMOVE
      ]_vars

\* update has returned after sending requests, none of them cancel_all, while
\* a live order sits on a level that the quote list does not carry
C35_Witness ==
    /\ pc = "ret"
    /\ call.op = "update"
    /\ call.result = "returned"
    /\ sent # <<>>
    /\ \A i \in 1..Len(sent) : sent[i].op # "cancel_all_orders"
    /\ \E oid \in DOMAIN orders_state :
           /\ Tail3(orders_state[oid].cloid) # TpTag
           /\ \A j \in 1..Len(call.new_orders) :
                  call.new_orders[j].cloid # orders_state[oid].cloid

\* C36: a step of update, simple_update or cancel_all, the gathers of
\* place_orders and amend_orders and the answers of the exchange among them,
\* leaves orders_state and order_count as they are; they change only in a
\* step in which update_orders_state processes a batch of order updates
C36_OnlyOrderUpdatesChangeOrders ==
    [][orders_state' # orders_state \/ order_keys' # order_keys
           \/ order_count' # order_count
           => /\ pc = "idle" /\ pc' = "idle"
              /\ \E data \in QuietBatches : OrderEvent(data)
      ]_vars

\* update has placed orders and the exchange has accepted them, yet the OMS
\* holds no order and counts none
C36_Witness ==
    /\ pc = "ret"
    /\ call.op = "update"
    /\ call.limits # <<>>
    /\ call.gathered = "OK"
    /\ orders_state = EmptyMap
    /\ order_count = 0

\* C37: in every state the OMS reaches, processing a FILLED or CANCELLED
\* record whose oid is not in orders_state leaves orders_state, order_count
\* and pending_levels as they are and adds no order to the list the
\* take-profit task is started for; a level that is pending stays pending
C37_UnknownRemovalChangesNothing ==
    \A rec \in Records :
        rec.status \in REMOVE /\ rec.order.oid \notin DOMAIN orders_state
            => /\ ApplyRecord(OmsState, rec) = OmsState
               /\ ApplyBatch(OmsState, <<rec>>).filled = <<>>
               /\ DOMAIN ApplyBatch(OmsState, <<rec>>).pl = DOMAIN pending_levels

\* the worker is about to read the next order event while the request of a
\* pending level is unanswered and another order is live; the CANCELLED
\* update of an order of that level that no NEW has announced leaves the
\* level pending
C37_Witness ==
    /\ pc = "idle"
    /\ orders_state # EmptyMap
    /\ \E rec \in QuietRecords :
           LET level == Tail3(rec.order.cloid)
           IN  /\ rec.status = "CANCELLED"
               /\ rec.order.oid # NoOid
               /\ rec.order.oid \notin DOMAIN orders_state
               /\ level \in DOMAIN pending_levels
               /\ inflight[level] > 0
               /\ level \in DOMAIN ApplyRecord(OmsState, rec).pl

\* C38: a step in which the worker handles an "order" event, whatever the
\* batch holds, fills among them, leaves the quoter, the time of the last
\* requote and the record of the last requote as they are, and does not
\* enter OMS.update
C38_OrderEventsNeverRequote ==
    [][(\E data \in FillBatches : OrderEvent(data))
           => /\ UNCHANGED <<quoter, requote_log, last_requote_time>>
              /\ pc' = "idle"
              /\ UNCHANGED <<call, sent>>
      ]_vars

\* a batch with a fill has been handled, its take-profit task is scheduled,
\* and no requote has ever run
C38_Witness ==
    /\ pc = "idle"
    /\ tp_tasks # <<>>
    /\ tp_tasks[Len(tp_tasks)].st = "scheduled"
    /\ requote_log = NoRequote
    /\ quoter = NewQuoter
    /\ last_requote_time = 0

\* C39: in every state the OMS reaches, orders_state holds at most one order
\* per level tag other than "_tp"
C39_OneOrderPerLevel ==
    \A o1 \in DOMAIN orders_state, o2 \in DOMAIN orders_state :
        /\ Tail3(orders_state[o1].cloid) = Tail3(orders_state[o2].cloid)
        /\ Tail3(orders_state[o1].cloid) # TpTag
        => o1 = o2

\* C40: the queue of a key holds, and get on a key returns, only events put
\* under that key; a put on one key leaves the counters and queues of the
\* other keys as they are and takes the number after its own key's last one,
\* the first being 1; it raises RuntimeError exactly if its own key is
\* closed, whatever keys else are closed; a get on one key leaves the queues
\* and the delivered events of the other keys as they are
C40_KeysAreIsolated ==
    [][/\ \A k \in Keys :
              /\ \A i \in 1..Len(queue'[k]) : queue'[k][i].data = k
              /\ \A i \in 1..Len(got'[k]) : got'[k][i].data = k
              /\ last_id[k] = 0 /\ last_id'[k] # 0 => last_id'[k] = 1
       /\ \A p \in Producers, k \in Keys :
              Put(p, k) =>
                  /\ \A j \in Keys \ {k} : /\ last_id'[j] = last_id[j]
                                           /\ queue'[j] = queue[j]
                                           /\ got'[j] = got[j]
                  /\ IF closed[k]
                     THEN prod'[p].result = Raised("RuntimeError")
                     ELSE /\ last_id'[k] = last_id[k] + 1
                          /\ prod'[p].result.kind # "RuntimeError"
       /\ \A k \in Keys :
              Get(k) \/ GetResume(k) =>
                  /\ UNCHANGED last_id
                  /\ \A j \in Keys \ {k} : queue'[j] = queue[j] /\ got'[j] = got[j]
      ]_vars

\* one key is closed after it delivered its event number 1, the other key has
\* delivered its own event number 1 and a put on it raises nothing
C40_Witness ==
    \E k \in Keys, j \in Keys :
        /\ k # j
        /\ closed[k] /\ ~closed[j]
        /\ got[k] # <<>> /\ got[k][1].seq_id = 1
        /\ got[j] # <<>> /\ got[j][1].seq_id = 1
        /\ PutError(j) = None
        /\ \E p \in Producers : prod[p].result = Raised("RuntimeError")

(***************************************************************************)
(* Rounding                                                                *)
(***************************************************************************)
\* C19 as stated: for every x and step s > 0, round_step(round_step(x, s), s)
\* = round_step(x, s), and for x >= 0 round_step(x, s) is a multiple of s
\* (as str prints it) with 0 <= x - round_step(x, s) < s
C19_RoundStepLawsAnyFloat ==
    /\ rounded.st = "twice" => rounded.twice = rounded.once
    /\ rounded.st \in {"once", "twice"} /\ rounded.x >= 0
          => /\ float_str(rounded.once, rounded.ulp) % rounded.step = 0
             /\ 0 <= rounded.x - rounded.once
             /\ rounded.x - rounded.once < rounded.step

\* C19: the same for x and s that str and float carry without loss (decimals
\* of at most 15 significant digits)
C19_RoundStepLaws ==
    rounded.ulp = 1 => C19_RoundStepLawsAnyFloat

\* a decimal that is not a multiple of its step has been rounded twice
C19_Witness ==
    /\ rounded.st = "twice"
    /\ rounded.ulp = 1
    /\ rounded.x > 0
    /\ rounded.x % rounded.step # 0

====
